---- MODULE Spec2Model ----
(***************************************************************************)
(* Model of electrum/interface.py: the notification session, the padded    *)
(* framing transport, the interface's root task, the chain resolver with   *)
(* its headers cache, and the typed requests.                              *)
(*                                                                         *)
(* Each component has its own next-state relation over the module's        *)
(* variables (SpecSession, SpecTransport, SpecIface, SpecResolver, ...); a *)
(* component's actions leave the other components' variables unchanged.    *)
(***************************************************************************)
EXTENDS Integers, Sequences, FiniteSets, TLC

(***************************************************************************)
(* Bounds of the model.                                                    *)
(***************************************************************************)
\* Subscribe calls, unsubscribe calls and server pushes of one session, together.
MaxOps == 4
\* write() calls on one transport.
MaxWrites == 2
\* Seconds of the monotonic clock.
MaxTime == 2
\* Cancellations of one interface's root task by the supervisor.
MaxCancels == 2
\* Tip notifications one run_fetch_blocks task takes from its queue.
MaxTips == 2
\* Iterations of the loop of one sync_until call.
MaxIter == 3
\* Rounds of the loop of one request_fee_estimates task.
MaxFeeRounds == 2
\* Items of the list a server sends as the history of a scripthash.
MaxHistLen == 3

(***************************************************************************)
(* Generic helpers.                                                        *)
(***************************************************************************)
Range(s) == {s[i] : i \in 1..Len(s)}
Front(s) == SubSeq(s, 1, Len(s) - 1)
Last(s) == s[Len(s)]
Count(x, s) == Cardinality({i \in 1..Len(s) : s[i] = x})
\* d[k] = v on a dict: the key is added when it is new.
DictSet(d, k, v) == [x \in (DOMAIN d) \cup {k} |-> IF x = k THEN v ELSE d[x]]
EmptyDict == [x \in {} |-> 0]

(***************************************************************************)
(* NotificationSession                                                     *)
(*                                                                         *)
(*   subscriptions  key -> list of queues (a defaultdict: a key is present *)
(*                  once subscribe has touched it, also with an empty list)*)
(*   cache          key -> last value                                      *)
(*   queue          for every queue the items put on it, in put order. An  *)
(*                  item is the args list the code puts; key and src are   *)
(*                  history fields recording which key and which code path *)
(*                  ("subscribe" or "notification") produced it.           *)
(*   sub            the subscribe() calls: position, arguments and the     *)
(*                  response they wait for                                 *)
(*   netreq         requests sent and not yet answered by the server       *)
(*   inbox          messages of the server not yet processed, in order     *)
(*   sent           history: number of send_request calls per key          *)
(*   srvVal         the server's current value per key                     *)
(*   nOps           number of subscribe calls, unsubscribe calls and       *)
(*                  server pushes so far                                   *)
(*   closed         the session was closed by handle_request; the model    *)
(*                  stops there                                            *)
(*   hr             the running handle_request: position in its loop       *)
(***************************************************************************)
VARIABLES subscriptions, cache, queue, sub, netreq, inbox, sent, srvVal,
          nOps, closed, hr

sessionVars == <<subscriptions, cache, queue, sub, netreq, inbox, sent, srvVal,
                 nOps, closed, hr>>

\* The variables of the padded transport (described with the transport below).
VARIABLES sbuffer, last_send, force_send, can_send, closing, has_data, now,
          poller, wblock, emitted, written, assertFailed

transportVars == <<sbuffer, last_send, force_send, can_send, closing, has_data, now,
                   poller, wblock, emitted, written, assertFailed>>

\* The variables of the interface's root task (described with the interface
\* below).
VARIABLES rootpc, outcome, got_disconnected, ready, children, cancelled, session,
          nSessions, nDown, nCancels

ifaceVars == <<rootpc, outcome, got_disconnected, ready, children, cancelled, session,
               nSessions, nDown, nCancels>>

\* The variables of the run_fetch_blocks task and of the chain resolver it
\* drives (described with the resolver below).
VARIABLES fpc, tip, blockchain, max_checkpoint, frame, nTips, headers_cache

fetchVars == <<fpc, tip, blockchain, max_checkpoint, frame, nTips, headers_cache>>

\* The supervisor's bhi_lock and the interfaces that process a tip under it
\* (described with the lock below).
VARIABLES bhi_lock, lpc, waits, ltips

lockVars == <<bhi_lock, lpc, waits, ltips>>

\* The calls of request_chunk_below_max_checkpoint on one interface
\* (described with them below).
VARIABLES requested_chunks, ccall, fetching, nCalls

chunkVars == <<requested_chunks, ccall, fetching, nCalls>>

\* One call of get_block_headers (described with it below).
VARIABLES gbh

headersVars == <<gbh>>

\* The certificate store of one server and the start-ups of the interface
\* that uses it (described with them below).
VARIABLES cert_file, cert_expired, cpc, expected_fingerprint, cert_writes, sslc,
          nMismatch, probe, fetched, tries, nStartups, unlinked

certVars == <<cert_file, cert_expired, cpc, expected_fingerprint, cert_writes, sslc,
              nMismatch, probe, fetched, tries, nStartups, unlinked>>

\* The typed requests that coroutines outside the interface's taskgroup
\* issue on a connected interface (described with them below).
VARIABLES ext_corrupted, ext_served

extVars == <<ext_corrupted, ext_served>>

\* The answer to the server.version request of open_session ("none": not
\* answered yet).
VARIABLES ver

verVars == <<ver>>

otherVars == <<lockVars, chunkVars, headersVars, certVars, extVars>>

\* The fee estimates of one interface and its request_fee_estimates task
\* (described with them below).
VARIABLES fee_estimates_eta, fee_pc, fee_tasks, nFeeRounds

feeVars == <<fee_estimates_eta, fee_pc, fee_tasks, nFeeRounds>>

\* One call of get_history_for_scripthash (described with it below).
VARIABLES hist

histVars == <<hist>>

\* One ServerAddr, its string and the ServerAddr parsed from the string
\* (described with them below).
VARIABLES sa

addrVars == <<sa>>

\* The variables of the components described after the typed requests.
newVars == <<feeVars, histVars, addrVars>>

\* The variables of the components other than the session, the transport and
\* the interface.
restVars == <<otherVars, verVars, newVars>>

nonSessionVars == <<transportVars, ifaceVars, fetchVars, restVars>>
nonTransportVars == <<sessionVars, ifaceVars, fetchVars, restVars>>
nonIfaceVars == <<sessionVars, transportVars, fetchVars, restVars>>
outsideIfaceVars == <<sessionVars, transportVars, restVars>>
nonLockVars ==
    <<sessionVars, transportVars, ifaceVars, fetchVars, chunkVars, headersVars, certVars,
      extVars,
      verVars, newVars>>
nonChunkVars ==
    <<sessionVars, transportVars, ifaceVars, fetchVars, lockVars, headersVars, certVars,
      extVars,
      verVars, newVars>>
nonHeadersVars ==
    <<sessionVars, transportVars, ifaceVars, fetchVars, lockVars, chunkVars, certVars,
      extVars,
      verVars, newVars>>
nonCertVars ==
    <<sessionVars, transportVars, ifaceVars, fetchVars, lockVars, chunkVars, headersVars,
      extVars,
      verVars, newVars>>
nonExtVars ==
    <<sessionVars, transportVars, ifaceVars, fetchVars, lockVars, chunkVars, headersVars,
      certVars,
      verVars, newVars>>

\* The variables of the components described before the fee estimates.
baseVars == <<sessionVars, transportVars, ifaceVars, fetchVars, otherVars, verVars>>
nonFeeVars == <<baseVars, histVars, addrVars>>
nonHistVars == <<baseVars, feeVars, addrVars>>
nonAddrVars == <<baseVars, feeVars, histVars>>

vars == <<sessionVars, transportVars, ifaceVars, fetchVars, restVars>>


Queues == {"q1", "q2"}
Callers == 1..MaxOps

\* The (method, params) pairs the client subscribes to.
SubTargets == { [method |-> "blockchain.headers.subscribe", params |-> <<>>],
                [method |-> "blockchain.scripthash.subscribe", params |-> <<"sh1">>] }

\* get_hashable_key_for_rpc_call: str(method) + repr(params), an injective
\* pairing of the method with the parameter list.
get_hashable_key_for_rpc_call(method, params) == <<method, params>>

TargetKey(t) == get_hashable_key_for_rpc_call(t.method, t.params)
SubKeys == {TargetKey(t) : t \in SubTargets}

\* What the server may push besides the subscribed streams: a notification for
\* a key nobody subscribed to, and a notification without arguments.
ForeignPushes == { [method |-> "blockchain.scripthash.subscribe", args |-> <<"sh2", 1>>],
                   [method |-> "blockchain.headers.subscribe", args |-> <<>>] }

IdleHr == [i |-> 0, args |-> <<>>, pc |-> "idle", key |-> <<>>]
IdleSub == [queue |-> "", method |-> "", params |-> <<>>, pc |-> "idle",
            result |-> 0]

SessionInit ==
    /\ subscriptions = EmptyDict
    /\ cache = EmptyDict
    /\ queue = [q \in Queues |-> <<>>]
    /\ sub = [c \in Callers |-> IdleSub]
    /\ netreq = <<>>
    /\ inbox = <<>>
    /\ sent = [k \in SubKeys |-> 0]
    /\ srvVal = [k \in SubKeys |-> 0]
    /\ nOps = 0
    /\ closed = FALSE
    /\ hr = IdleHr

\* asyncio.Queue.put on an unbounded queue: the item goes to the back, at once.
QueuePut(qs, q, item) == [qs EXCEPT ![q] = Append(@, item)]

\* Mutant of SubscribeHitsCache: the cache is never consulted.
SubscribeHitsCache_Never(key) == FALSE

\* subscribe, line 211: the cache decides whether a request goes out.
SubscribeHitsCache(key) == key \in DOMAIN cache

\* subscribe(method, params, queue) up to its first suspension point: the
\* queue is appended to the key's list; a cached value is put on the queue at
\* once, otherwise send_request is called. (The queues are interchangeable:
\* the first call uses q1.)
SubscribeCall(c, t, q) ==
    LET key == TargetKey(t)
        lst == IF key \in DOMAIN subscriptions THEN subscriptions[key] ELSE <<>>
    IN
    /\ hr.pc = "idle"
    /\ ~closed
    /\ sub[c].pc = "idle"
    /\ \A d \in Callers : d < c => sub[d].pc # "idle"
    /\ c = 1 => q = "q1"
    /\ nOps < MaxOps
    /\ nOps' = nOps + 1
    /\ subscriptions' = DictSet(subscriptions, key, Append(lst, q))
    /\ IF SubscribeHitsCache(key)
       THEN /\ queue' = QueuePut(queue, q,
                   [args |-> Append(t.params, cache[key]), key |-> key, src |-> "subscribe"])
            /\ sub' = [sub EXCEPT ![c] = [queue |-> q, method |-> t.method,
                                          params |-> t.params, pc |-> "done",
                                          result |-> cache[key]]]
            /\ UNCHANGED <<netreq, sent>>
       ELSE /\ netreq' = Append(netreq, [key |-> key, caller |-> c])
            /\ sent' = [sent EXCEPT ![key] = @ + 1]
            /\ sub' = [sub EXCEPT ![c] = [queue |-> q, method |-> t.method,
                                          params |-> t.params, pc |-> "await",
                                          result |-> 0]]
            /\ UNCHANGED queue
    /\ UNCHANGED <<cache, inbox, srvVal, closed, hr>>
    /\ UNCHANGED nonSessionVars

\* The response to a subscribe's request arrives: send_request returns the
\* result to the waiting call.
RecvResponse ==
    /\ hr.pc = "idle"
    /\ ~closed
    /\ inbox # <<>>
    /\ Head(inbox).type = "response"
    /\ LET m == Head(inbox) IN
       sub' = [sub EXCEPT ![m.caller] = [@ EXCEPT !.pc = "ready", !.result = m.value]]
    /\ inbox' = Tail(inbox)
    /\ UNCHANGED <<subscriptions, cache, queue, netreq, sent, srvVal, nOps,
                   closed, hr>>
    /\ UNCHANGED nonSessionVars

\* subscribe after send_request returned: the result is cached and put on the
\* caller's queue.
SubscribeResume(c) ==
    LET key == get_hashable_key_for_rpc_call(sub[c].method, sub[c].params) IN
    /\ hr.pc = "idle"
    /\ ~closed
    /\ sub[c].pc = "ready"
    /\ cache' = DictSet(cache, key, sub[c].result)
    /\ queue' = QueuePut(queue, sub[c].queue,
                   [args |-> Append(sub[c].params, sub[c].result), key |-> key,
                    src |-> "subscribe"])
    /\ sub' = [sub EXCEPT ![c].pc = "done"]
    /\ UNCHANGED <<subscriptions, netreq, inbox, sent, srvVal, nOps, closed, hr>>
    /\ UNCHANGED nonSessionVars

\* list.remove(x): the first occurrence of x is removed.
ListRemove(s, x) ==
    LET i == CHOOSE j \in 1..Len(s) : s[j] = x /\ \A l \in 1..(j - 1) : s[l] # x
    IN SubSeq(s, 1, i - 1) \o SubSeq(s, i + 1, Len(s))

\* unsubscribe(queue): for every key's list v, if queue in v: v.remove(queue).
Unsubscribe(q) ==
    /\ hr.pc = "idle"
    /\ ~closed
    /\ nOps < MaxOps
    /\ nOps' = nOps + 1
    /\ \E k \in DOMAIN subscriptions : q \in Range(subscriptions[k])
    /\ subscriptions' = [k \in DOMAIN subscriptions |->
                            IF q \in Range(subscriptions[k])
                            THEN ListRemove(subscriptions[k], q)
                            ELSE subscriptions[k]]
    /\ UNCHANGED <<cache, queue, sub, netreq, inbox, sent, srvVal, closed, hr>>
    /\ UNCHANGED nonSessionVars

\* Mutant of HandleRequestBegin: the cache is not written before the loop over
\* the queues starts.
HandleRequestBegin_CacheLate ==
    /\ hr.pc = "idle"
    /\ ~closed
    /\ inbox # <<>>
    /\ Head(inbox).type \in {"notification", "request"}
    /\ LET m == Head(inbox)
           ok == /\ m.type = "notification"
                 /\ Len(m.args) >= 1
                 /\ get_hashable_key_for_rpc_call(m.method, Front(m.args))
                        \in DOMAIN subscriptions
       IN
       IF ok
       THEN LET key == get_hashable_key_for_rpc_call(m.method, Front(m.args)) IN
            /\ hr' = IF subscriptions[key] = <<>> THEN IdleHr
                     ELSE [i |-> 1, args |-> m.args, pc |-> "put",
                           key |-> key]
            /\ UNCHANGED <<cache, closed>>
       ELSE /\ closed' = TRUE
            /\ UNCHANGED <<cache, hr>>
    /\ inbox' = Tail(inbox)
    /\ UNCHANGED <<subscriptions, queue, sub, netreq, sent, srvVal, nOps>>
    /\ UNCHANGED nonSessionVars

\* Mutant of HandleRequestBegin: an unexpected message is dropped and the
\* session stays open.
HandleRequestBegin_NoClose ==
    /\ hr.pc = "idle"
    /\ ~closed
    /\ inbox # <<>>
    /\ Head(inbox).type \in {"notification", "request"}
    /\ LET m == Head(inbox)
           ok == /\ m.type = "notification"
                 /\ Len(m.args) >= 1
                 /\ get_hashable_key_for_rpc_call(m.method, Front(m.args))
                        \in DOMAIN subscriptions
       IN
       IF ok
       THEN LET key == get_hashable_key_for_rpc_call(m.method, Front(m.args)) IN
            /\ cache' = DictSet(cache, key, Last(m.args))
            /\ hr' = IF subscriptions[key] = <<>> THEN IdleHr
                     ELSE [i |-> 1, args |-> m.args, pc |-> "put",
                           key |-> key]
            /\ UNCHANGED closed
       ELSE UNCHANGED <<cache, hr, closed>>
    /\ inbox' = Tail(inbox)
    /\ UNCHANGED <<subscriptions, queue, sub, netreq, sent, srvVal, nOps>>
    /\ UNCHANGED nonSessionVars

\* handle_request, lines 161-165 and 168-174: a notification for a key of
\* `subscriptions` is cached and the loop over the key's queues starts; any
\* other message (a notification for another key or without arguments, whose
\* args[-1] raises, or a request that is no notification) closes the session.
HandleRequestBegin ==
    /\ hr.pc = "idle"
    /\ ~closed
    /\ inbox # <<>>
    /\ Head(inbox).type \in {"notification", "request"}
    /\ LET m == Head(inbox)
           ok == /\ m.type = "notification"
                 /\ Len(m.args) >= 1
                 /\ get_hashable_key_for_rpc_call(m.method, Front(m.args))
                        \in DOMAIN subscriptions
       IN
       IF ok
       THEN LET key == get_hashable_key_for_rpc_call(m.method, Front(m.args)) IN
            /\ cache' = DictSet(cache, key, Last(m.args))
            /\ hr' = IF subscriptions[key] = <<>> THEN IdleHr
                     ELSE [i |-> 1, args |-> m.args, pc |-> "put",
                           key |-> key]
            /\ UNCHANGED closed
       ELSE /\ closed' = TRUE
            /\ UNCHANGED <<cache, hr>>
    /\ inbox' = Tail(inbox)
    /\ UNCHANGED <<subscriptions, queue, sub, netreq, sent, srvVal, nOps>>
    /\ UNCHANGED nonSessionVars

\* handle_request, lines 166-167: one turn of the loop over the key's queues.
\* A put on an unbounded asyncio.Queue does not suspend, so nothing else runs
\* between the cache write and the last put.
HandleRequestPut ==
    /\ hr.pc = "put"
    /\ queue' = QueuePut(queue, subscriptions[hr.key][hr.i],
                   [args |-> hr.args, key |-> hr.key, src |-> "notification"])
    /\ hr' = IF hr.i = Len(subscriptions[hr.key]) THEN IdleHr
             ELSE [hr EXCEPT !.i = @ + 1]
    /\ UNCHANGED <<subscriptions, cache, sub, netreq, inbox, sent, srvVal, nOps,
                   closed>>
    /\ UNCHANGED nonSessionVars

\* The server answers the oldest request with the key's current value.
ServerRespond ==
    /\ hr.pc = "idle"
    /\ ~closed
    /\ netreq # <<>>
    /\ LET r == Head(netreq) IN
       inbox' = Append(inbox, [caller |-> r.caller, type |-> "response",
                               value |-> srvVal[r.key]])
    /\ netreq' = Tail(netreq)
    /\ UNCHANGED <<subscriptions, cache, queue, sub, sent, srvVal, nOps,
                   closed, hr>>
    /\ UNCHANGED nonSessionVars

\* The server pushes the next value of a stream.
ServerNotify(t) ==
    LET key == TargetKey(t) IN
    /\ hr.pc = "idle"
    /\ ~closed
    /\ nOps < MaxOps
    /\ srvVal' = [srvVal EXCEPT ![key] = @ + 1]
    /\ inbox' = Append(inbox, [method |-> t.method,
                               args |-> Append(t.params, srvVal[key] + 1),
                               type |-> "notification"])
    /\ nOps' = nOps + 1
    /\ UNCHANGED <<subscriptions, cache, queue, sub, netreq, sent, closed, hr>>
    /\ UNCHANGED nonSessionVars

\* The server pushes something the client never asked for.
ServerForeign ==
    /\ hr.pc = "idle"
    /\ ~closed
    /\ nOps < MaxOps
    /\ \/ \E p \in ForeignPushes :
             inbox' = Append(inbox, [method |-> p.method, args |-> p.args,
                                     type |-> "notification"])
       \/ inbox' = Append(inbox, [type |-> "request"])
    /\ nOps' = nOps + 1
    /\ UNCHANGED <<subscriptions, cache, queue, sub, netreq, sent, srvVal, closed, hr>>
    /\ UNCHANGED nonSessionVars

(***************************************************************************)
(* Properties of the notification session.                                 *)
(***************************************************************************)
KeyOfCall(c) == get_hashable_key_for_rpc_call(sub[c].method, sub[c].params)
NotifItems(q, k) == SelectSeq(queue[q], LAMBDA it : it.src = "notification" /\ it.key = k)
\* The message handle_request is about to take, if any.
HandlerTakes ==
    /\ inbox # <<>>
    /\ Head(inbox).type \in {"notification", "request"}
    /\ inbox' = Tail(inbox)
HeadIsSubscribed ==
    /\ Head(inbox).type = "notification"
    /\ Len(Head(inbox).args) >= 1
    /\ get_hashable_key_for_rpc_call(Head(inbox).method, Front(Head(inbox).args))
           \in DOMAIN subscriptions

\* C1 (as stated): on one session at most one network request is ever sent
\* for a subscription key, whatever the interleaving of the subscribe calls.
C1_AtMostOneRequestPerKey == \A k \in SubKeys : sent[k] <= 1

\* C1 (amended): once the cache holds a value for a key, no subscribe call
\* sends a request for that key any more, and the cache entry stays; only
\* calls that start before the key's value was first cached send a request.
C1_NoRequestOnceCached ==
    [][\A k \in SubKeys : k \in DOMAIN cache =>
            /\ sent'[k] = sent[k]
            /\ k \in DOMAIN cache']_vars

\* C1 witness: two subscribe calls on one key completed, one request was
\* sent: the later call was served from the cache.
C1_Witness ==
    \E k \in SubKeys :
        /\ sent[k] = 1
        /\ Cardinality({c \in Callers : sub[c].pc = "done" /\ KeyOfCall(c) = k}) >= 2

\* C2: on every queue the notifications of a key appear in the order the
\* server sent them (the server numbers a key's values 1, 2, ...; a queue that
\* is in the key's list twice gets every value twice), and while
\* handle_request puts a notification on the queues the cache already holds
\* that notification's value.
C2_OrderedAndCacheFirst ==
    /\ \A q \in Queues, k \in SubKeys :
          LET ns == NotifItems(q, k) IN
          \A i \in 1..Len(ns), j \in 1..Len(ns) :
              i < j => Last(ns[i].args) <= Last(ns[j].args)
    /\ hr.pc = "put" =>
          /\ hr.key \in DOMAIN cache
          /\ cache[hr.key] = Last(hr.args)

\* C2 witness: a key with two subscribed queues, each of which has received
\* two notifications of that key.
C2_Witness ==
    \E k \in SubKeys :
        /\ Len(NotifItems("q1", k)) >= 2
        /\ Len(NotifItems("q2", k)) >= 1

\* C3: handling a notification whose key is not in `subscriptions`, or a
\* request that is no notification, closes the session and changes neither
\* the cache nor any queue; handling a notification whose key is subscribed
\* caches its value, keeps the session open, and by the end of the handler
\* every queue in the key's list has received the notification once per
\* occurrence in the list.
C3_UnexpectedClosesSubscribedDelivers ==
    [][/\ (HandlerTakes /\ ~HeadIsSubscribed) =>
              /\ closed'
              /\ cache' = cache
              /\ queue' = queue
              /\ hr'.pc = "idle"
       /\ (HandlerTakes /\ HeadIsSubscribed) =>
              LET m == Head(inbox)
                  key == get_hashable_key_for_rpc_call(m.method, Front(m.args))
              IN /\ ~closed'
                 /\ key \in DOMAIN cache'
                 /\ cache'[key] = Last(m.args)
                 /\ queue' = queue
                 /\ subscriptions[key] # <<>> => hr'.pc = "put" /\ hr'.args = m.args
       /\ (hr.pc = "put" /\ hr'.pc = "idle") =>
              \A q \in Queues :
                  LET n == Count(q, subscriptions[hr.key])
                      l == Len(queue'[q])
                  IN /\ l >= n
                     /\ \A i \in (l - n + 1)..l :
                           /\ queue'[q][i].args = hr.args
                           /\ queue'[q][i].src = "notification"
                     /\ Len(SelectSeq(queue'[q], LAMBDA it :
                               /\ it.src = "notification"
                               /\ it.key = hr.key
                               /\ it.args = hr.args)) = n
      ]_vars

\* C3 witness: a notification was delivered to a queue and a later unexpected
\* message closed the session.
C3_Witness ==
    /\ closed
    /\ \E q \in Queues, k \in SubKeys : Len(NotifItems(q, k)) >= 1

\* C4 (as stated): after unsubscribe(queue) the queue is in no key's
\* subscriber list, whatever subscribe calls came before.
C4_UnsubscribedQueueInNoList ==
    [][\A q \in Queues :
          (\E k \in DOMAIN subscriptions :
               Count(q, subscriptions'[k]) < Count(q, subscriptions[k]))
          => \A k \in DOMAIN subscriptions' : q \notin Range(subscriptions'[k])]_vars

SessionNext ==
    \/ \E c \in Callers, t \in SubTargets, q \in Queues : SubscribeCall(c, t, q)
    \/ RecvResponse
    \/ \E c \in Callers : SubscribeResume(c)
    \/ \E q \in Queues : Unsubscribe(q)
    \/ HandleRequestBegin
    \/ HandleRequestPut
    \/ ServerRespond
    \/ \E t \in SubTargets : ServerNotify(t)
    \/ ServerForeign

(***************************************************************************)
(* PaddedRSTransport                                                       *)
(*                                                                         *)
(* A byte string is a sequence of runs <<c, n>>: n >= 1 copies of a byte   *)
(* of class c, adjacent runs of different classes. The classes are "{" and *)
(* "[" (opening bracket), "}" and "]" (closing bracket), "\n", " " and "x" *)
(* (any other byte of a JSON text).                                        *)
(*                                                                         *)
(*   sbuffer       _sbuffer, the send buffer                               *)
(*   last_send     _last_send, in seconds of the monotonic clock           *)
(*   force_send    _force_send                                             *)
(*   can_send      _can_send (cleared and set by the flow control of the   *)
(*                 underlying transport)                                   *)
(*   closing       is_closing()                                            *)
(*   has_data      _sbuffer_has_data_evt                                   *)
(*   now           time.monotonic(), in whole seconds                      *)
(*   poller        the _poll_sbuffer task: position and wake-up time       *)
(*   wblock        a write() call suspended in `await _can_send.wait()`    *)
(*   emitted       history: what was handed to _asyncio_transport.write,   *)
(*                 with the buffer prefix each packet was built from, the  *)
(*                 option taken and the caller of _maybe_consume_sbuffer   *)
(*   written       history: the frames appended to the buffer, in order    *)
(*   assertFailed  one of the two assertions of _maybe_consume_sbuffer     *)
(*                 failed                                                  *)
(***************************************************************************)

MIN_PACKET_SIZE == 1024
WAIT_FOR_BUFFER_GROWTH_SECONDS == 1

Max(a, b) == IF a >= b THEN a ELSE b
Min(a, b) == IF a <= b THEN a ELSE b

RECURSIVE BLen(_)
BLen(b) == IF b = <<>> THEN 0 ELSE b[1][2] + BLen(Tail(b))

\* a + b
BCat(a, b) ==
    IF a = <<>> THEN b
    ELSE IF b = <<>> THEN a
    ELSE IF Last(a)[1] = b[1][1]
         THEN Front(a) \o << <<b[1][1], Last(a)[2] + b[1][2]>> >> \o Tail(b)
         ELSE a \o b

\* b[:n], n >= 0
RECURSIVE BTake(_, _)
BTake(b, n) ==
    IF n <= 0 \/ b = <<>> THEN <<>>
    ELSE IF b[1][2] <= n THEN <<b[1]>> \o BTake(Tail(b), n - b[1][2])
    ELSE << <<b[1][1], n>> >>

\* b[n:], n >= 0
RECURSIVE BDrop(_, _)
BDrop(b, n) ==
    IF n <= 0 \/ b = <<>> THEN b
    ELSE IF b[1][2] <= n THEN BDrop(Tail(b), n - b[1][2])
    ELSE << <<b[1][1], b[1][2] - n>> >> \o Tail(b)

\* b[i:j], 0 <= i <= j
BSlice(b, i, j) == BTake(BDrop(b, i), j - i)

\* b[-2:]
BLast2(b) == BDrop(b, Max(0, BLen(b) - 2))

\* b.rfind(c, 0, end) for a single byte c: the highest index below `end` that
\* holds c, or -1. `off` is the index of b's first byte.
RECURSIVE RFindFrom(_, _, _, _)
RFindFrom(b, c, off, end) ==
    IF b = <<>> THEN -1
    ELSE LET here == IF b[1][1] = c /\ off < end
                     THEN Min(off + b[1][2], end) - 1 ELSE -1
         IN Max(here, RFindFrom(Tail(b), c, off + b[1][2], end))
BRFind(b, c, end) == RFindFrom(b, c, 0, end)

\* n * b" "
Spaces(n) == IF n <= 0 THEN <<>> ELSE << <<" ", n>> >>

\* int.bit_length()
RECURSIVE bit_length(_)
bit_length(n) == IF n = 0 THEN 0 ELSE 1 + bit_length(n \div 2)

Terminators == { << <<"}", 1>>, <<"\n", 1>> >>, << <<"]", 1>>, <<"\n", 1>> >> }

\* The JSON-RPC messages the session writes: a JSON text of `len` bytes, an
\* object ("{" ... "}": a request, a response, a notification) or an array
\* ("[" ... "]": a batch), without a raw line break.
Messages == { [len |-> 2,    open |-> "{", close |-> "}"],
              [len |-> 700,  open |-> "[", close |-> "]"],
              [len |-> 1023, open |-> "{", close |-> "}"],
              [len |-> 3000, open |-> "[", close |-> "]"] }

JsonText(m) ==
    BCat(BCat(<< <<m.open, 1>> >>,
              IF m.len > 2 THEN << <<"x", m.len - 2>> >> ELSE <<>>),
         << <<m.close, 1>> >>)

\* NewlineFramer.frame(message): message + b"\n"
Frame(m) == BCat(JsonText(m), << <<"\n", 1>> >>)

\* line 338
total_lsize_NoMin(payload_lsize) == 2 ^ bit_length(payload_lsize)
total_lsize(payload_lsize) == Max(MIN_PACKET_SIZE, 2 ^ bit_length(payload_lsize))

\* line 342
total_ssize(payload_lsize) == Max(MIN_PACKET_SIZE, total_lsize(payload_lsize) \div 2)

\* lines 329-333: send now?
SendNow(buf, force, last, t) ==
    \/ force
    \/ BLen(buf) >= MIN_PACKET_SIZE
    \/ last + WAIT_FOR_BUFFER_GROWTH_SECONDS < t

\* lines 364-366: buf[:p_idx-2] + npad * b" " + json_rpc_terminator
BuildPacket_PadAtEnd(buf, p_idx, npad) ==
    BCat(BTake(buf, p_idx), Spaces(npad))
BuildPacket(buf, p_idx, npad) ==
    BCat(BCat(BTake(buf, p_idx - 2), Spaces(npad)), BSlice(buf, p_idx - 2, p_idx))

\* line 369: del self._sbuffer[:p_idx]
ConsumeRest_All(buf, p_idx) == <<>>
ConsumeRest(buf, p_idx) == BDrop(buf, p_idx)

\* _maybe_consume_sbuffer on buffer `buf` at time t: "skip" (an early
\* return), "assert" (an assertion fails) or "send" with the packet, the
\* number of buffer bytes it consumes and the option taken. `inf` stands for
\* float("inf"): no line break below total_ssize.
Consume(buf, force, last, t, cs, cl) ==
    IF ~cs \/ cl \/ buf = <<>> \/ ~SendNow(buf, force, last, t)
    THEN [kind |-> "skip"]
    ELSE IF BLast2(buf) \notin Terminators
    THEN [kind |-> "assert"]
    ELSE
    LET payload_lsize == BLen(buf)
        npad_lsize == total_lsize(payload_lsize) - payload_lsize
        found == BRFind(buf, "\n", total_ssize(payload_lsize))
        inf == found = -1
        payload_ssize == found + 1
        npad_ssize == total_ssize(payload_lsize) - payload_ssize
        lsize == force \/ inf \/ npad_lsize <= npad_ssize
        npad == IF lsize THEN npad_lsize ELSE npad_ssize
        p_idx == IF lsize THEN payload_lsize ELSE payload_ssize
    IN IF BSlice(buf, p_idx - 2, p_idx) \notin Terminators
       THEN [kind |-> "assert"]
       ELSE [p_idx |-> p_idx, kind |-> "send",
             packet |-> BuildPacket(buf, p_idx, npad),
             opt |-> IF lsize THEN "lsize" ELSE "ssize"]

\* The effect of a _maybe_consume_sbuffer call on the transport, `buf` and
\* `evt` being the buffer and the data event as the caller left them.
ApplyConsume(buf, evt, by) ==
    LET r == Consume(buf, force_send, last_send, now, can_send, closing) IN
    /\ assertFailed' = (r.kind = "assert")
    /\ IF r.kind = "send"
       THEN /\ emitted' = Append(emitted, [packet |-> r.packet, opt |-> r.opt,
                                           by |-> by,
                                           payload |-> BTake(buf, r.p_idx)])
            /\ last_send' = now
            /\ sbuffer' = ConsumeRest(buf, r.p_idx)
            /\ has_data' = IF ConsumeRest(buf, r.p_idx) = <<>> THEN FALSE ELSE evt
       ELSE /\ sbuffer' = buf
            /\ has_data' = evt
            /\ UNCHANGED <<emitted, last_send>>

\* lines 382-384: the time the poller sleeps until.
PollerSleepUntil_FromNow(last, t) == t + WAIT_FOR_BUFFER_GROWTH_SECONDS
PollerSleepUntil(last, t) == Max(t, last + WAIT_FOR_BUFFER_GROWTH_SECONDS)

NoWriter == [pc |-> "none", msg |-> [len |-> 0, open |-> "", close |-> ""]]

\* __init__ (lines 303-309); the transport is not connected yet.
TransportInit ==
    /\ sbuffer = <<>>
    /\ last_send = 0
    /\ now = 0
    /\ force_send = FALSE
    /\ can_send = TRUE
    /\ closing = FALSE
    /\ has_data = FALSE
    /\ poller = [pc |-> "unconnected", wake |-> 0]
    /\ wblock = NoWriter
    /\ emitted = <<>>
    /\ written = <<>>
    /\ assertFailed = FALSE

\* connection_made: a NotificationSession gets the polling task, any other
\* session forces every write out.
ConnectionMade(notification_session) ==
    /\ poller.pc = "unconnected"
    /\ force_send' = ~notification_session
    /\ poller' = [poller EXCEPT !.pc = IF notification_session THEN "wait_send" ELSE "none"]
    /\ UNCHANGED <<sbuffer, last_send, can_send, closing, has_data, now,
                   wblock, emitted, written, assertFailed>>
    /\ UNCHANGED nonTransportVars

WritesSoFar == Len(written) + (IF wblock.pc = "none" THEN 0 ELSE 1)

\* write(message) from the return of `await self._can_send.wait()` on: the
\* frame is appended, the data event set, _maybe_consume_sbuffer called.
\* (On a closing transport write returns without doing anything.)
WriteBody(m) ==
    /\ poller.pc # "unconnected"
    /\ ~closing
    /\ ~assertFailed
    /\ written' = Append(written, Frame(m))
    /\ ApplyConsume(BCat(sbuffer, Frame(m)), TRUE, "write")
    /\ UNCHANGED <<force_send, can_send, closing, now, poller>>

\* write(message) that finds _can_send set.
Write(m) ==
    /\ WritesSoFar < MaxWrites
    /\ can_send
    /\ wblock.pc = "none"
    /\ WriteBody(m)
    /\ UNCHANGED wblock
    /\ UNCHANGED nonTransportVars

\* write(message) that finds _can_send cleared and waits.
WriteBlock(m) ==
    /\ WritesSoFar < MaxWrites
    /\ poller.pc # "unconnected"
    /\ ~can_send
    /\ ~closing
    /\ wblock.pc = "none"
    /\ wblock' = [pc |-> "waiting", msg |-> m]
    /\ UNCHANGED <<sbuffer, last_send, force_send, can_send, closing, has_data, now,
                   poller, emitted, written, assertFailed>>
    /\ UNCHANGED nonTransportVars

\* The suspended write runs again after _can_send was set (it does not test
\* the event again, which may have been cleared in between).
WriteWoken ==
    /\ wblock.pc = "woken"
    /\ WriteBody(wblock.msg)
    /\ wblock' = NoWriter
    /\ UNCHANGED nonTransportVars

\* Flow control of the underlying transport: pause_writing / resume_writing.
PauseWriting ==
    /\ poller.pc # "unconnected"
    /\ can_send
    /\ ~closing
    /\ can_send' = FALSE
    /\ UNCHANGED <<sbuffer, last_send, force_send, closing, has_data, now, poller,
                   wblock, emitted, written, assertFailed>>
    /\ UNCHANGED nonTransportVars

ResumeWriting ==
    /\ ~can_send
    /\ can_send' = TRUE
    /\ wblock' = IF wblock.pc = "waiting" THEN [wblock EXCEPT !.pc = "woken"] ELSE wblock
    /\ UNCHANGED <<sbuffer, last_send, force_send, closing, has_data, now, poller,
                   emitted, written, assertFailed>>
    /\ UNCHANGED nonTransportVars

\* The transport starts closing.
TransportClose ==
    /\ poller.pc # "unconnected"
    /\ ~closing
    /\ closing' = TRUE
    /\ wblock' = NoWriter
    /\ UNCHANGED <<sbuffer, last_send, force_send, can_send, has_data, now, poller,
                   emitted, written, assertFailed>>
    /\ UNCHANGED nonTransportVars

\* _poll_sbuffer at `await self._can_send.wait()`.
PollerPassSend ==
    /\ poller.pc = "wait_send"
    /\ can_send
    /\ poller' = [poller EXCEPT !.pc = "wait_data"]
    /\ UNCHANGED <<sbuffer, last_send, force_send, can_send, closing, has_data, now,
                   wblock, emitted, written, assertFailed>>
    /\ UNCHANGED nonTransportVars

\* _poll_sbuffer from the return of `await self._sbuffer_has_data_evt.wait()`
\* to its next suspension point: _maybe_consume_sbuffer, then a sleep if the
\* buffer still holds data.
PollerRun ==
    /\ poller.pc = "wait_data"
    /\ has_data
    /\ ~assertFailed
    /\ ApplyConsume(sbuffer, has_data, "poller")
    /\ poller' = IF assertFailed' THEN [poller EXCEPT !.pc = "done"]
                 ELSE IF sbuffer' # <<>>
                 THEN [pc |-> "sleep", wake |-> PollerSleepUntil(last_send', now)]
                 ELSE IF closing THEN [poller EXCEPT !.pc = "done"]
                 ELSE [poller EXCEPT !.pc = "wait_send"]
    /\ UNCHANGED <<force_send, can_send, closing, now, wblock, written>>
    /\ UNCHANGED nonTransportVars

\* asyncio.sleep returns; the loop tests is_closing().
PollerWake ==
    /\ poller.pc = "sleep"
    /\ poller.wake <= now
    /\ poller' = [poller EXCEPT !.pc = IF closing THEN "done" ELSE "wait_send"]
    /\ UNCHANGED <<sbuffer, last_send, force_send, can_send, closing, has_data, now,
                   wblock, emitted, written, assertFailed>>
    /\ UNCHANGED nonTransportVars

\* The poller can run now.
PollerRunnable ==
    \/ poller.pc = "sleep" /\ poller.wake <= now
    \/ poller.pc = "wait_send" /\ can_send
    \/ poller.pc = "wait_data" /\ has_data

\* The clock advances by a second. The event loop runs a task that is ready
\* before that: time does not pass while the poller is ready to run and its
\* _maybe_consume_sbuffer would emit a packet.
Tick ==
    /\ poller.pc # "unconnected"
    /\ now < MaxTime
    /\ ~(/\ PollerRunnable
         /\ Consume(sbuffer, force_send, last_send, now, can_send, closing).kind = "send")
    /\ now' = now + 1
    /\ UNCHANGED <<sbuffer, last_send, force_send, can_send, closing, has_data,
                   poller, wblock, emitted, written, assertFailed>>
    /\ UNCHANGED nonTransportVars

TransportNext ==
    \/ \E ns \in BOOLEAN : ConnectionMade(ns)
    \/ \E m \in Messages : Write(m)
    \/ \E m \in Messages : WriteBlock(m)
    \/ WriteWoken
    \/ PauseWriting
    \/ ResumeWriting
    \/ TransportClose
    \/ PollerPassSend
    \/ PollerRun
    \/ PollerWake
    \/ Tick

(***************************************************************************)
(* Properties of the padded transport.                                     *)
(***************************************************************************)
Connected == poller.pc # "unconnected"

RECURSIVE ConcatAll(_)
ConcatAll(bs) == IF bs = <<>> THEN <<>> ELSE BCat(bs[1], ConcatAll(Tail(bs)))

\* A packet without its padding: the run of spaces right before the last two
\* bytes is taken out.
Strip(p) ==
    LET n == Len(p) IN
    IF n >= 3 /\ p[n - 2][1] = " "
    THEN BCat(SubSeq(p, 1, n - 3), SubSeq(p, n - 1, n))
    ELSE p

\* The offsets at which a frame ends in the stream of written frames.
FrameEnds == { BLen(ConcatAll(SubSeq(written, 1, i))) : i \in 1..Len(written) }

\* C5: every packet handed to the underlying transport has a length that is a
\* power of two and at least MIN_PACKET_SIZE, whichever of the two options
\* (lsize, ssize) built it and whether or not sends are forced.
C5_PacketLengthPowerOfTwo ==
    \A i \in 1..Len(emitted) :
        LET n == BLen(emitted[i].packet) IN
        /\ n >= MIN_PACKET_SIZE
        /\ \E k \in 0..bit_length(n) : n = 2 ^ k

\* Both options have built a packet on one transport.
C5_Witness ==
    /\ \E i \in 1..Len(emitted) : emitted[i].opt = "lsize"
    /\ \E i \in 1..Len(emitted) : emitted[i].opt = "ssize"

\* C6: no assertion of _maybe_consume_sbuffer fails, and every emitted packet
\* is the consumed buffer prefix with spaces, and nothing but spaces, put
\* right before its last two bytes, which are the terminator "}\n" or "]\n"
\* of the last frame of that prefix.
C6_PaddingBeforeTerminator ==
    /\ ~assertFailed
    /\ \A i \in 1..Len(emitted) :
        LET p == emitted[i].packet
            pl == emitted[i].payload
            npad == BLen(p) - BLen(pl)
        IN /\ npad >= 0
           /\ BLast2(p) \in Terminators
           /\ BLast2(p) = BLast2(pl)
           /\ BTake(p, BLen(pl) - 2) = BTake(pl, BLen(pl) - 2)
           /\ BSlice(p, BLen(pl) - 2, BLen(p) - 2) = Spaces(npad)

\* A padded packet cut inside the buffer (ssize) that ends with "]\n", while
\* a later frame stays behind.
C6_Witness ==
    /\ sbuffer # <<>>
    /\ \E i \in 1..Len(emitted) :
          /\ emitted[i].opt = "ssize"
          /\ BLen(emitted[i].packet) > BLen(emitted[i].payload)
          /\ BLast2(emitted[i].packet) = << <<"]", 1>>, <<"\n", 1>> >>

\* C7: the emitted packets without their padding, concatenated, followed by
\* the send buffer, are the written frames in write order, and every packet
\* ends where a frame ends: no frame is lost, duplicated, reordered or split.
C7_StreamPreserved ==
    /\ BCat(ConcatAll([i \in 1..Len(emitted) |-> Strip(emitted[i].packet)]), sbuffer)
           = ConcatAll(written)
    /\ \A i \in 1..Len(emitted) :
           BLen(ConcatAll([j \in 1..i |-> Strip(emitted[j].packet)])) \in FrameEnds

\* Two frames were written, a packet went out and part of the stream is still
\* in the buffer.
C7_Witness ==
    /\ Len(written) >= 2
    /\ emitted # <<>>
    /\ sbuffer # <<>>
    /\ ~closing

Overdue ==
    /\ Connected
    /\ ~force_send
    /\ sbuffer # <<>>
    /\ now > last_send + WAIT_FOR_BUFFER_GROWTH_SECONDS

\* C8 (as stated): with force_send false, a non-empty buffer never sees more
\* than WAIT_FOR_BUFFER_GROWTH_SECONDS pass since the previous emission.
C8_EmittedWithinWait ==
    (Connected /\ ~force_send /\ ~closing /\ sbuffer # <<>>)
        => now <= last_send + WAIT_FOR_BUFFER_GROWTH_SECONDS

\* C8 (amended): with force_send false, while the underlying transport
\* accepts writes and is not closing, a non-empty buffer for which more than
\* WAIT_FOR_BUFFER_GROWTH_SECONDS have passed since the previous emission
\* finds the poller ready to run, and that run emits a packet. (Nothing is
\* emitted while writes are paused, nor at exactly
\* WAIT_FOR_BUFFER_GROWTH_SECONDS.)
C8_PollerEmitsWhenOverdue ==
    (Overdue /\ can_send /\ ~closing /\ ~assertFailed)
        => /\ PollerRunnable
           /\ Consume(sbuffer, force_send, last_send, now, can_send, closing).kind = "send"

\* The poller has emitted a frame shorter than MIN_PACKET_SIZE that had been
\* waiting in the buffer.
C8_Witness ==
    /\ ~force_send
    /\ \E i \in 1..Len(emitted) :
          /\ emitted[i].by = "poller"
          /\ BLen(emitted[i].payload) < MIN_PACKET_SIZE

(***************************************************************************)
(* Interface: the root task `run` under handle_disconnect                  *)
(*                                                                         *)
(*   rootpc            where the root task is suspended: "created" (not    *)
(*                     started), "ssl" (_get_ssl_context, a saved          *)
(*                     certificate or plain TCP), "probe" (the exit_early  *)
(*                     session of is_server_ca_signed), "connect",         *)
(*                     "version" (server.version sent), "children" (inside *)
(*                     `async with self.taskgroup`), "joining" (the group  *)
(*                     waits for its cancelled tasks), "fin_cancel"        *)
(*                     (awaiting taskgroup.cancel_remaining()),            *)
(*                     "fin_down" (awaiting network.connection_down()),    *)
(*                     "done"                                              *)
(*   outcome           how the wrapped function ended                      *)
(*   got_disconnected  the event of that name                              *)
(*   ready             the future: "pending", "resolved" or "cancelled"    *)
(*   children          the unfinished tasks of self.taskgroup              *)
(*   cancelled         those of them whose cancellation was requested      *)
(*   session           "none", "open", "closing" or "closed"               *)
(*   nSessions         sessions opened so far                              *)
(*   nDown             calls of network.connection_down so far             *)
(*   nCancels          cancellations of the root task so far               *)
(***************************************************************************)
GroupTasks == {"ping", "request_fee_estimates", "run_fetch_blocks", "monitor_connection"}
ChildNames == GroupTasks \cup {"_poll_sbuffer", "_maybe_send_noise"}

IfaceInit ==
    /\ ver = "none"
    /\ rootpc = "created"
    /\ outcome = "none"
    /\ got_disconnected = FALSE
    /\ ready = "pending"
    /\ children = {}
    /\ cancelled = {}
    /\ session = "none"
    /\ nSessions = 0
    /\ nDown = 0
    /\ nCancels = 0

\* handle_disconnect, lines 656-661, entered with the tasks `kids` in the
\* taskgroup: the event is set, cancel_remaining requests the cancellation of
\* every task and waits for them if there are any, then connection_down is
\* called and awaited.
EnterFinally(kids, how) ==
    /\ outcome' = how
    /\ got_disconnected' = TRUE
    /\ children' = kids
    /\ cancelled' = kids
    /\ IF kids = {}
       THEN /\ nDown' = nDown + 1
            /\ rootpc' = "fin_down"
       ELSE /\ nDown' = nDown
            /\ rootpc' = "fin_cancel"

\* The root task takes its first step: run calls _get_ssl_context.
RootStart ==
    /\ rootpc = "created"
    /\ rootpc' = "ssl"
    /\ UNCHANGED <<outcome, got_disconnected, ready, children, cancelled, session,
                   nSessions, nDown, nCancels>>
    /\ UNCHANGED nonIfaceVars

\* A session is opened: connection_made spawns the poller into the
\* interface's taskgroup (lines 155, 389).
OpenedSession ==
    /\ session' = "open"
    /\ nSessions' = nSessions + 1
    /\ children' = children \cup {"_poll_sbuffer"}

\* _get_ssl_context: the context is there (plain TCP or a saved certificate),
\* or the certificate cannot be parsed or fetched and run returns (lines
\* 670-674), or another error is raised, or there is no saved certificate and
\* is_server_ca_signed opens a session with exit_early (line 567).
SslContext ==
    /\ rootpc = "ssl"
    /\ \/ /\ rootpc' = "connect"
          /\ UNCHANGED <<outcome, got_disconnected, children, cancelled, session,
                         nSessions, nDown>>
       \/ /\ \E how \in {"return", "other"} : EnterFinally(children, how)
          /\ UNCHANGED <<session, nSessions>>
       \/ /\ OpenedSession
          /\ rootpc' = "probe"
          /\ UNCHANGED <<outcome, got_disconnected, cancelled, nDown>>
    /\ UNCHANGED <<ready, nCancels>>
    /\ UNCHANGED nonIfaceVars

\* The exit_early session got its server.version answer (or an error) and
\* is closed by the exit of `async with _RSClient`.
ProbeDone ==
    /\ rootpc = "probe"
    /\ session' = "closed"
    /\ \/ /\ rootpc' = "connect"
          /\ UNCHANGED <<outcome, got_disconnected, children, cancelled, nDown>>
       \/ \E how \in {"graceful", "other"} : EnterFinally(children, how)
    /\ UNCHANGED <<ready, nSessions, nCancels>>
    /\ UNCHANGED nonIfaceVars

\* open_session, line 911: the connection is made, or ConnectError /
\* SOCKSError is raised, which run catches and returns (lines 677-685).
Connect ==
    /\ rootpc = "connect"
    /\ \/ /\ OpenedSession
          /\ rootpc' = "version"
          /\ UNCHANGED <<outcome, got_disconnected, cancelled, nDown>>
       \/ /\ EnterFinally(children, "return")
          /\ UNCHANGED <<session, nSessions>>
    /\ UNCHANGED <<ready, nCancels>>
    /\ UNCHANGED nonIfaceVars

\* The answers to server.version: the requested version and a passed spread
\* check, an RPCError, another version in ver[1], a failed spread check, none
\* before the timeout (RequestTimedOut, a GracefulDisconnect), or a result
\* that has no second element.
VersionAnswers ==
    {"ok", "rpc_error", "wrong_version", "spread_failed", "timed_out", "malformed"}

\* open_session, lines 922-934: the answer lets the interface go on.
VersionAccepted_NoVersionCheck(answer) == answer \in {"ok", "wrong_version"}

VersionAccepted(answer) == answer = "ok"

\* open_session, lines 922-940: server.version fails with an RPCError, the
\* answer names another protocol version or the bucket check fails
\* (GracefulDisconnect), the request times out (another exception), or the
\* four tasks are spawned into the taskgroup.
VersionDone(answer) ==
    /\ rootpc = "version"
    /\ ver' = answer
    /\ IF VersionAccepted(answer)
       THEN /\ rootpc' = "children"
            /\ children' = children \cup GroupTasks
            /\ UNCHANGED <<outcome, got_disconnected, cancelled, session, nDown>>
       ELSE /\ EnterFinally(children, IF answer = "malformed" THEN "other" ELSE "graceful")
            /\ session' = "closed"
    /\ UNCHANGED <<ready, nSessions, nCancels>>
    /\ UNCHANGED <<sessionVars, transportVars, fetchVars, otherVars, newVars>>

\* The server closes the connection, or close() closes the session.
SessionLost ==
    /\ session = "open"
    /\ session' = "closing"
    /\ UNCHANGED <<rootpc, outcome, got_disconnected, ready, children, cancelled,
                   nSessions, nDown, nCancels>>
    /\ UNCHANGED nonIfaceVars

\* The supervisor gives up waiting for `ready` and cancels the future.
ReadyTimeout ==
    /\ ready = "pending"
    /\ rootpc # "done"
    /\ ready' = "cancelled"
    /\ UNCHANGED <<rootpc, outcome, got_disconnected, children, cancelled, session,
                   nSessions, nDown, nCancels>>
    /\ UNCHANGED nonIfaceVars

\* A task that runs and was not asked to stop.
Runs(c) == rootpc = "children" /\ c \in children \ cancelled

\* The errors a task of the group can end with: "rpc_listed" is an RPCError
\* with one of the codes of lines 943-948.
ChildErrors(c) ==
    IF c = "monitor_connection"
    THEN IF session \in {"closing", "closed"} THEN {"graceful"} ELSE {}
    ELSE IF c = "run_fetch_blocks"
    THEN {"graceful", "rpc_listed", "rpc", "other"}
    ELSE IF c = "_poll_sbuffer" THEN {"other"}
    ELSE {"rpc_listed", "rpc", "other"}

\* run_fetch_blocks, lines 1022-1025: the finally clause that is run when
\* _process_header_at_tip is left, by a return, an exception or a
\* cancellation, clears the cache.
AfterProcessing_Keep(hc) == hc
AfterProcessing(hc) == {}

\* A task of the group ends by an exception or a cancellation: the finally
\* clause of run_fetch_blocks is run when that task is inside its try.
TaskLeaves(c) ==
    headers_cache' = IF c = "run_fetch_blocks" /\ fpc \notin {"get", "after", "dead"}
                     THEN AfterProcessing(headers_cache)
                     ELSE headers_cache

\* A task of the group raises: the group requests the cancellation of the
\* other tasks and waits for them, then raises the task's error out of
\* `async with self.taskgroup`.
ChildFails_NoCancel(c, e) ==
    /\ Runs(c)
    /\ e \in ChildErrors(c)
    /\ children' = children \ {c}
    /\ got_disconnected' = TRUE
    /\ UNCHANGED <<rootpc, outcome, cancelled, ready, session, nSessions, nDown, nCancels>>
    /\ UNCHANGED nonIfaceVars
ChildFails(c, e) ==
    /\ Runs(c)
    /\ e \in ChildErrors(c)
    /\ children' = children \ {c}
    /\ cancelled' = children \ {c}
    /\ outcome' = IF e \in {"graceful", "rpc_listed"} THEN "graceful" ELSE e
    /\ rootpc' = "joining"
    /\ UNCHANGED <<got_disconnected, ready, session, nSessions, nDown, nCancels>>
    /\ TaskLeaves(c)
    /\ UNCHANGED <<fpc, tip, blockchain, max_checkpoint, frame, nTips>>
    /\ UNCHANGED outsideIfaceVars

\* What a task of the group that raises e does to the interface: see
\* ChildFails.
TaskRaises(c, e) ==
    /\ children' = children \ {c}
    /\ cancelled' = children \ {c}
    /\ outcome' = IF e \in {"graceful", "rpc_listed"} THEN "graceful" ELSE e
    /\ rootpc' = "joining"
    /\ UNCHANGED <<got_disconnected, ready, session, nSessions, nDown, nCancels>>

\* The task goes on.
TaskGoesOn ==
    UNCHANGED <<rootpc, outcome, got_disconnected, children, cancelled,
                session, nSessions, nDown, nCancels>>

\* The Blockchain objects of the store; NoChain is None.
Chains == {"chain_a", "chain_b"}
NoChain == "None"

\* The heights a server announces as its tip.
Tips == {1, 3, 8}

\* The frame of sync_until and of the functions it calls; num_headers is -1
\* while no fast-forward of the iteration has returned, exc is the
\* exception that has ended the call, and saved is the height of the header
\* the last step has saved (-1: none).  only_step marks a call of step
\* alone, not through sync_until, and what is known of the store when that
\* step starts: local_height is the height of the one local chain and
\* checks_upto the highest height at which the server's header checks
\* against it (-1: nothing is known, the store answers freely).  raise_at is
\* the check of the resolver that failed, bh the height of the chain adopted
\* by the searches and forkpoint the fork point of the chain created by the
\* resolution of the fork point.
NoFrame == [probe |-> 0, last |-> "None", height |-> 0, next_height |-> 0,
            prev_last |-> "None", prev_height |-> 0, cont |-> FALSE,
            good |-> 0, bad |-> 0, delta |-> 0, checkp |-> FALSE,
            honest |-> FALSE, iter |-> 0, requested |-> <<>>,
            connected |-> <<>>, direct |-> FALSE, arg_height |-> 0,
            warm_from |-> 0, warm_count |-> 0, no_progress |-> FALSE,
            num_headers |-> -1, exc |-> "None", saved |-> -1,
            only_step |-> FALSE, local_height |-> -1, checks_upto |-> -1,
            raise_at |-> "None", bh |-> -1, forkpoint |-> -1]

\* Interface.__init__ (lines 506, 525-526): no blockchain, no tip.
FetchStart(cp) ==
    /\ fpc = "get"
    /\ tip = 0
    /\ blockchain = NoChain
    /\ max_checkpoint = cp
    /\ frame = NoFrame
    /\ nTips = 0
    /\ headers_cache = {}

\* constants.net.max_checkpoint(): no checkpoint, or a checkpoint between the
\* tips.
Checkpoints == {0, 2}

FetchInit == FetchStart(0)

\* _mark_ready (lines 687-703) on a future that is not cancelled: the chain
\* the tip header checks against, or else the best chain, is adopted and the
\* future resolved, unless the future is resolved already.
mark_ready(c) ==
    /\ ready' = "resolved"
    /\ blockchain' = IF ready = "resolved" THEN blockchain ELSE c

\* run_fetch_blocks, lines 1008-1021, and _process_header_at_tip up to the
\* lock (lines 1041-1042): a tip notification is taken from the queue,
\* tip_header and tip are set; a tip below the last checkpoint raises
\* GracefulDisconnect, and so does _mark_ready on a cancelled future;
\* otherwise the cache is cleared and the tip header put into it.
MarkReady ==
    /\ Runs("run_fetch_blocks")
    /\ fpc = "get"
    /\ nTips < MaxTips
    /\ nTips' = nTips + 1
    /\ \E h \in Tips, c \in Chains :
          /\ tip' = h
          /\ IF h < max_checkpoint \/ ready = "cancelled"
             THEN /\ TaskRaises("run_fetch_blocks", "graceful")
                  /\ UNCHANGED <<blockchain, fpc, headers_cache>>
             ELSE /\ mark_ready(c)
                  /\ headers_cache' = {h}
                  /\ fpc' = "lock"
                  /\ TaskGoesOn
    /\ UNCHANGED <<max_checkpoint, frame>>
    /\ UNCHANGED outsideIfaceVars

\* run_fetch_blocks, lines 1026-1034: the tip is processed, a noise ping is
\* spawned into the taskgroup and the task waits for the next tip.
SpawnNoise ==
    /\ Runs("run_fetch_blocks")
    /\ fpc = "after"
    /\ fpc' = "get"
    /\ children' = children \cup {"_maybe_send_noise"}
    /\ UNCHANGED <<rootpc, outcome, got_disconnected, ready, cancelled, session,
                   nSessions, nDown, nCancels>>
    /\ UNCHANGED <<tip, blockchain, max_checkpoint, frame, nTips, headers_cache>>
    /\ UNCHANGED outsideIfaceVars

\* A task ends without an error: a cancelled task, _maybe_send_noise when
\* its loop ends, the poller of a transport that is closing.
ChildEnds(c) ==
    /\ c \in children
    /\ \/ c \in cancelled
       \/ c = "_maybe_send_noise"
       \/ c = "_poll_sbuffer" /\ session \in {"closing", "closed"}
    /\ children' = children \ {c}
    /\ cancelled' = cancelled \ {c}
    /\ UNCHANGED <<rootpc, outcome, got_disconnected, ready, session, nSessions,
                   nDown, nCancels>>
    /\ TaskLeaves(c)
    /\ UNCHANGED <<fpc, tip, blockchain, max_checkpoint, frame, nTips>>
    /\ UNCHANGED outsideIfaceVars

\* open_session, lines 941-953 and the exit of `async with _RSClient`, then
\* handle_disconnect's except clauses and finally: the group's tasks are all
\* finished, got_disconnected is set (line 953).
JoinDone ==
    /\ rootpc = "joining"
    /\ children = {}
    /\ session' = "closed"
    /\ EnterFinally({}, outcome)
    /\ UNCHANGED <<ready, nSessions, nCancels>>
    /\ UNCHANGED nonIfaceVars

\* taskgroup.cancel_remaining() returns (line 660); connection_down is called
\* (line 661).
FinCancelDone ==
    /\ rootpc = "fin_cancel"
    /\ children = {}
    /\ nDown' = nDown + 1
    /\ rootpc' = "fin_down"
    /\ UNCHANGED <<outcome, got_disconnected, ready, children, cancelled, session,
                   nSessions, nCancels>>
    /\ UNCHANGED nonIfaceVars

\* network.connection_down() returns; ready.cancel() (line 663) cancels the
\* future unless it is done.
FinDownDone ==
    /\ rootpc = "fin_down"
    /\ ready' = IF ready = "pending" THEN "cancelled" ELSE ready
    /\ rootpc' = "done"
    /\ UNCHANGED <<outcome, got_disconnected, children, cancelled, session,
                   nSessions, nDown, nCancels>>
    /\ UNCHANGED nonIfaceVars

\* The supervisor cancels the root task: CancelledError is raised where the
\* task is suspended. A task that has not started ends without running a
\* line of `run`. In open_session the error closes the session and run
\* catches it (lines 677-685); inside `async with self.taskgroup` the group
\* first cancels its tasks and waits for them. In the finally clause the
\* error ends the clause where it is suspended; where cancel_remaining waits
\* for a task the error may also be taken for that task's and be dropped.
CancelRoot ==
    /\ nCancels < MaxCancels
    /\ nCancels' = nCancels + 1
    /\ \/ /\ rootpc = "created"
          /\ rootpc' = "done"
          /\ outcome' = "cancelled"
          /\ UNCHANGED <<got_disconnected, children, cancelled, session, nDown>>
       \/ /\ rootpc = "ssl"
          /\ EnterFinally(children, "cancelled")
          /\ UNCHANGED session
       \/ /\ rootpc \in {"probe", "version"}
          /\ EnterFinally(children, "cancelled")
          /\ session' = "closed"
       \/ /\ rootpc = "connect"
          /\ EnterFinally(children, "cancelled")
          /\ UNCHANGED session
       \/ /\ rootpc = "children"
          /\ rootpc' = "joining"
          /\ outcome' = "cancelled"
          /\ cancelled' = children
          /\ UNCHANGED <<got_disconnected, children, session, nDown>>
       \/ /\ rootpc = "joining"
          /\ EnterFinally(children, "cancelled")
          /\ session' = "closed"
       \/ /\ rootpc = "fin_cancel"
          /\ \/ UNCHANGED rootpc
             \/ rootpc' = "done"
          /\ UNCHANGED <<outcome, got_disconnected, children, cancelled, session, nDown>>
       \/ /\ rootpc = "fin_down"
          /\ rootpc' = "done"
          /\ UNCHANGED <<outcome, got_disconnected, children, cancelled, session, nDown>>
    /\ UNCHANGED <<ready, nSessions>>
    /\ UNCHANGED nonIfaceVars

(***************************************************************************)
(* The chain resolver: _process_header_at_tip, sync_until, step and the    *)
(* searches, run by the run_fetch_blocks task                              *)
(*                                                                         *)
(*   fpc             where the task is suspended ("stepped": a step called *)
(*                   alone has returned): "get" (header_queue              *)
(*                   .get()), "lock" (async with bhi_lock), "sync" (the    *)
(*                   head of sync_until's loop), "ff" (the requests of     *)
(*                   _fast_forward_chain), "step" (the header of step),    *)
(*                   "back" (a probe of the backward search), "bin" (a     *)
(*                   probe of the binary search), "dead" (it raised)       *)
(*   tip             self.tip (0: no tip_header yet)                       *)
(*   blockchain      self.blockchain                                       *)
(*   max_checkpoint  constants.net.max_checkpoint()                        *)
(*   frame           the local variables of sync_until and its callees;    *)
(*                   `honest` says that the server serves one valid chain  *)
(*                   that extends the local one                            *)
(*   nTips           tips taken from the queue so far                      *)
(*                                                                         *)
(* The blockchain store is not part of the interface: what check_header,   *)
(* can_connect, connect_chunk, height() and fork answer is chosen freely   *)
(* at each call, except that one header gets one answer while the store is *)
(* not changed.                                                            *)
(***************************************************************************)
CHUNK_SIZE == 2016
MAX_NUM_HEADERS_PER_REQUEST == 2016
\* sync_until, line 1060: farther than this from the target, headers are
\* fetched in chunks.
FarFromTip == 144
\* _fast_forward_chain, line 882: chunks requested at once.
MaxChunksAtOnce == 10

FetchRuns == Runs("run_fetch_blocks")

\* The coroutine that runs the resolver is alive: the run_fetch_blocks task,
\* or the caller of a sync_until called from outside the taskgroup.
ResolverRuns ==
    IF frame.direct THEN fpc \notin {"call", "returned", "stepped", "raised"}
    ELSE FetchRuns

\* The resolver raises e: out of run_fetch_blocks into the taskgroup, or to
\* the outside caller of sync_until.
Raises(e, fr) ==
    /\ IF frame.direct
       THEN fpc' = "raised" /\ TaskGoesOn /\ ready' = ready
       ELSE fpc' = "dead" /\ TaskRaises("run_fetch_blocks", e)
    /\ frame' = [fr EXCEPT !.direct = frame.direct, !.exc = e]

FetchRaises(e) == Raises(e, NoFrame)

\* sync_until, line 1081: the assertion of progress fails, an AssertionError
\* like any other raised out of the call; the frame keeps the reason.
ProgressAssertionFails ==
    Raises("other", [NoFrame EXCEPT !.no_progress = TRUE])

\* One of the resolver's own checks fails: an Exception or AssertionError
\* raised out of the call; the frame keeps which one.
RaisesAt(why) ==
    Raises("other", [NoFrame EXCEPT !.raise_at = why])

\* _fast_forward_chain, lines 881-889: the chunks requested from `height` on,
\* none starting above `t`.
RECURSIVE ChunkRequests_PastTip(_, _, _)
ChunkRequests_PastTip(index, t, left) ==
    IF left = 0 THEN <<>>
    ELSE LET start_height == index * CHUNK_SIZE
             end_height == Min(start_height + CHUNK_SIZE - 1, t)
         IN <<[index |-> index, start_height |-> start_height,
               size |-> end_height - start_height + 1]>>
            \o ChunkRequests_PastTip(index + 1, t, left - 1)

RECURSIVE ChunkRequests(_, _, _)
ChunkRequests(index, t, left) ==
    IF left = 0 \/ index * CHUNK_SIZE > t THEN <<>>
    ELSE LET start_height == index * CHUNK_SIZE
             end_height == Min(start_height + CHUNK_SIZE - 1, t)
         IN <<[index |-> index, start_height |-> start_height,
               size |-> end_height - start_height + 1]>>
            \o ChunkRequests(index + 1, t, left - 1)

\* lines 892-898: the headers of the first k chunks.
RECURSIVE NumHeaders(_, _)
NumHeaders(reqs, k) ==
    IF k = 0 THEN 0 ELSE reqs[k].size + NumHeaders(reqs, k - 1)

\* step, line 1088: assert 0 <= height <= self.tip.
StepAssert(height) == 0 <= height /\ height <= tip

\* The cache after a move of the resolver that has left it as `cache`: it is
\* cleared when the move leaves _process_header_at_tip (see
\* AfterProcessing); a sync_until called from outside run_fetch_blocks
\* leaves it as it is.
CacheAfter(hc) ==
    headers_cache' = IF ~frame.direct /\ fpc' \in {"dead", "after"}
                     THEN AfterProcessing(hc)
                     ELSE hc

\* _maybe_warm_headers_cache, lines 764-772: the request for the headers
\* from_height..to_height, none when the cache holds them all.
WarmAssert(from_height, to_height) ==
    from_height <= to_height /\ to_height - from_height < MAX_NUM_HEADERS_PER_REQUEST
WarmRequest(f, hc, from_height, to_height) ==
    IF (from_height..to_height) \subseteq hc
    THEN [f EXCEPT !.warm_from = 0, !.warm_count = 0]
    ELSE [f EXCEPT !.warm_from = from_height, !.warm_count = to_height - from_height + 1]

\* The numbers of headers a server may answer the pending request with.
WarmCounts(f) ==
    IF f.warm_count = 0 THEN {0}
    ELSE {f.warm_count - 1, f.warm_count, f.warm_count + 1}
\* get_block_headers, lines 823-830: n headers are accepted for a request
\* of `count` headers from start_height on.
HeadersAccepted(n, start_height, count) ==
    /\ ~(n > count)
    /\ ~(n < count /\ start_height + n - 1 < tip)
\* _maybe_warm_headers_cache, lines 773-775: the n headers of the response
\* are put into the cache.
Warmed(f, hc, n) == hc \cup (f.warm_from .. (f.warm_from + n - 1))
\* The frame when the response has been taken.
Received(f) == [f EXCEPT !.warm_from = 0, !.warm_count = 0]

\* step, lines 1089-1093: to_height of the cache warming.
StepWarmTo_PastTip(height) == height + MAX_NUM_HEADERS_PER_REQUEST - 1
StepWarmTo(height) == Min(tip, height + MAX_NUM_HEADERS_PER_REQUEST - 1)

\* step, lines 1088-1093, up to the request of the cache warming.
StepCall(f) ==
    IF ~StepAssert(f.height) \/ ~WarmAssert(f.height, StepWarmTo(f.height))
    THEN FetchRaises("other")
    ELSE /\ fpc' = "step"
         /\ frame' = WarmRequest([f EXCEPT !.saved = -1, !.bh = -1,
                                            !.forkpoint = -1, !.good = 0,
                                            !.bad = 0], headers_cache,
                                 f.height, StepWarmTo(f.height))
         /\ TaskGoesOn

\* _process_header_at_tip, lines 1042-1047, with the lock acquired: either
\* the chain is at the tip's height already and the tip header checks, and
\* the call returns False, or sync_until(tip) is called.
ProcessTip ==
    /\ FetchRuns
    /\ fpc = "lock"
    /\ \/ /\ fpc' = "after"
          /\ frame' = NoFrame
       \/ \E b \in BOOLEAN :
          /\ fpc' = "sync"
          /\ frame' = [NoFrame EXCEPT !.height = tip, !.arg_height = tip,
                                      !.next_height = tip, !.honest = b]
    /\ TaskGoesOn
    /\ CacheAfter(headers_cache)
    /\ UNCHANGED <<ready, tip, blockchain, max_checkpoint, nTips>>
    /\ UNCHANGED outsideIfaceVars

\* sync_until, lines 1057-1080, from the test of the loop to the next
\* request: the call returns, or _fast_forward_chain sends its requests
\* (lines 866-889), or step asks for the header at `height`.
SyncLoop ==
    /\ ResolverRuns
    /\ fpc = "sync"
    /\ LET f == [frame EXCEPT !.prev_last = frame.last, !.prev_height = frame.height,
                              !.iter = frame.iter + 1, !.cont = FALSE,
                              !.num_headers = -1]
       IN
       IF frame.last # "None" /\ frame.height > frame.next_height
       THEN /\ fpc' = IF frame.direct THEN "returned" ELSE "after"
            /\ frame' = frame
            /\ TaskGoesOn
       ELSE /\ frame.iter < MaxIter
            /\ IF f.next_height > f.height + FarFromTip
               THEN IF ~(f.height > max_checkpoint \/ (f.height = 0 /\ max_checkpoint = 0))
                    THEN FetchRaises("other")
                    ELSE /\ fpc' = "ff"
                         /\ frame' = [f EXCEPT !.requested =
                                ChunkRequests(f.height \div CHUNK_SIZE, f.next_height,
                                              MaxChunksAtOnce),
                                !.connected = <<>>]
                         /\ TaskGoesOn
               ELSE StepCall(f)
    /\ CacheAfter(headers_cache)
    /\ UNCHANGED <<ready, tip, blockchain, max_checkpoint, nTips>>
    /\ UNCHANGED outsideIfaceVars

\* sync_until, lines 1065-1067: no header of the fast-forward connected and
\* `height` is not above the last checkpoint.
ConflictsWithCheckpoints_Never(height) == FALSE
ConflictsWithCheckpoints(height) == height <= max_checkpoint

\* _fast_forward_chain, lines 890-900, and sync_until, lines 1065-1075: all
\* chunks have arrived; connect_chunk is called chunk after chunk until one
\* does not connect (k chunks connect). A call that raises leaves `height`
\* and `num_headers` as they were at the raise.
FastForwardDone ==
    /\ ResolverRuns
    /\ fpc = "ff"
    /\ \E k \in 0..Len(frame.requested) :
       LET reqs == frame.requested
           tried == Min(k + 1, Len(reqs))
           offset == frame.height - reqs[1].index * CHUNK_SIZE
           num_headers == Max(0, NumHeaders(reqs, k) - offset)
           f == [frame EXCEPT !.connected = [i \in 1..tried |-> reqs[i].index],
                              !.num_headers = num_headers]
           left == [NoFrame EXCEPT !.height = f.height, !.num_headers = num_headers]
       IN
       /\ frame.honest => k = Len(reqs)
       /\ IF num_headers = 0
          THEN IF ConflictsWithCheckpoints(f.height)
               THEN Raises("graceful", left)
               ELSE StepCall([f EXCEPT !.cont = TRUE])
          ELSE IF f.height + num_headers > f.next_height + 1
               THEN Raises("other", left)
               ELSE /\ fpc' = "sync"
                    /\ frame' = [f EXCEPT !.height = f.height + num_headers,
                                          !.last = "CATCHUP"]
                    /\ TaskGoesOn
    /\ CacheAfter(headers_cache)
    /\ UNCHANGED <<ready, tip, blockchain, max_checkpoint, nTips>>
    /\ UNCHANGED outsideIfaceVars

\* The heights the local chains may have reached (local_max, line 1209).
LocalMax == {0, 1, 2}

\* blockchain.check_header(header) for the header at height h (lines 1096,
\* 1110, 1142, 1199): it may find a chain, it may find none.
MayCheck(f, h) == f.checks_upto = -1 \/ h <= f.checks_upto
MayNotCheck(f, h) == f.checks_upto = -1 \/ h > f.checks_upto

\* line 1209: the greatest height of the local chains.
LocalMaxes(f) == IF f.local_height = -1 THEN LocalMax ELSE {f.local_height}

\* lines 1170-1172: bh == good, the adopted chain ends at `good`; or it is
\* higher.
ChainEndsAt_Always(bh, good) == TRUE
ChainEndsAt(bh, good) == bh = good
\* blockchain.check_header (lines 1110, 1142): the height of the chain that
\* the header at `height` checks against, a chain that holds this header: the
\* local chain when it is known, a chain that ends at the header or above it
\* otherwise.
AdoptedHeights(f, height) ==
    IF f.local_height = -1 THEN {height, height + 1} ELSE {f.local_height}
\* Blockchain.fork (line 1180): the fork point of the chain it creates, the
\* height of the header when the store is known.
ForkPointsOf(f) ==
    IF f.local_height = -1 THEN {f.bad - 1, f.bad} ELSE {f.bad}

\* sync_until, lines 1069-1081: step returned (last, height); unless the
\* loop continues at line 1070, the pair must differ from the previous one.
\* A step called alone returns the pair to its caller (lines 1104, 1116,
\* 1119).
StepReturns(f, last, height) ==
    IF ~f.only_step /\ ~f.cont /\ f.prev_last = last /\ f.prev_height = height
    THEN ProgressAssertionFails
    ELSE /\ fpc' = IF f.only_step THEN "stepped" ELSE "sync"
         /\ frame' = [f EXCEPT !.last = last, !.height = height,
                               !.probe = 0, !.delta = 0, !.checkp = FALSE]
         /\ TaskGoesOn

\* _search_headers_backwards, line 1220: delta *= 2.
NextDelta_Linear(delta) == delta + 2
NextDelta(delta) == 2 * delta

\* _search_headers_backwards, lines 1193-1196: a probe at or below the last
\* checkpoint is made at the checkpoint.
ClampProbe(f) ==
    IF f.probe <= max_checkpoint
    THEN [f EXCEPT !.probe = max_checkpoint, !.checkp = TRUE]
    ELSE [f EXCEPT !.checkp = FALSE]

EnterBinary_NullChain(f, chain) ==
    /\ blockchain' = NoChain
    /\ IF 0 <= f.good /\ f.good < f.bad
       THEN /\ fpc' = "bin"
            /\ frame' = f
            /\ TaskGoesOn
       ELSE FetchRaises("other")

\* _search_headers_binary, lines 1131-1134, and the head of its loop: the
\* chain the last good header checked against is adopted, then the interval
\* must be a proper one.
EnterBinary(f, chain) ==
    /\ blockchain' = chain
    /\ IF 0 <= f.good /\ f.good < f.bad
       THEN /\ fpc' = "bin"
            /\ frame' = f
            /\ TaskGoesOn
       ELSE RaisesAt("interval")

\* _search_headers_binary, lines 1138-1140: the interval is warmed when it
\* is small.
BinWarm(f, hc) ==
    IF f.bad - f.good + 1 <= MAX_NUM_HEADERS_PER_REQUEST /\ WarmAssert(f.good, f.bad)
    THEN WarmRequest(f, hc, f.good, f.bad)
    ELSE Received(f)

\* step, lines 1089-1116 and 1206-1216: the headers of the cache warming
\* have arrived, and with them the header at `height`. It checks against a
\* chain, or connects to one and is saved, or the backward search starts
\* below it and warms the cache below its first probe.
StepHeader ==
    /\ ResolverRuns
    /\ fpc = "step"
    /\ \E n \in WarmCounts(frame) :
       LET ok == HeadersAccepted(n, frame.warm_from, frame.warm_count)
           hc == Warmed(frame, headers_cache, IF ok THEN n ELSE 0)
           fr == Received(frame)
       IN
       /\ IF ~ok
          THEN blockchain' = blockchain /\ FetchRaises("other")
          ELSE \/ \E c \in Chains :
                  /\ MayCheck(fr, fr.height)
                  /\ blockchain' = c
                  /\ StepReturns(fr, "CATCHUP", fr.height + 1)
               \/ \E c \in Chains :
                  /\ MayNotCheck(fr, fr.height)
                  /\ blockchain' = c
                  /\ StepReturns([fr EXCEPT !.saved = fr.height], "CATCHUP",
                                 fr.height + 1)
               \/ \E lm \in LocalMaxes(fr) :
                  LET f == [fr EXCEPT !.bad = fr.height,
                                      !.probe = Min(lm + 1, fr.height - 1),
                                      !.delta = 2]
                  IN /\ MayNotCheck(fr, fr.height)
                     /\ blockchain' = blockchain
                     /\ IF f.probe < 0
                        THEN RaisesAt("negative")
                        ELSE IF ~WarmAssert(Max(0, f.probe - 10), f.probe)
                        THEN FetchRaises("other")
                        ELSE /\ fpc' = "back"
                             /\ frame' = WarmRequest(ClampProbe(f), hc,
                                                     Max(0, f.probe - 10), f.probe)
                             /\ TaskGoesOn
       /\ CacheAfter(hc)
    /\ UNCHANGED <<ready, tip, max_checkpoint, nTips>>
    /\ UNCHANGED outsideIfaceVars

\* _search_headers_backwards, lines 1197-1220, and step, lines 1109-1118:
\* the headers of a pending cache warming and the header at `probe` have
\* arrived.  If it connects the step returns; if it only checks against a
\* chain the binary search starts from it; if it does neither the search
\* goes on below, or gives up at the checkpoint.  The header of the height
\* the step started from is served from the cache and gets the answer it got
\* before.
BackProbe ==
    /\ ResolverRuns
    /\ fpc = "back"
    /\ \E n \in WarmCounts(frame) :
       LET ok == HeadersAccepted(n, frame.warm_from, frame.warm_count)
           hc == Warmed(frame, headers_cache, IF ok THEN n ELSE 0)
           fr == Received(frame)
       IN
       /\ IF ~ok
          THEN blockchain' = blockchain /\ FetchRaises("other")
          ELSE \/ /\ fr.probe # fr.height
                  /\ \E c \in Chains :
                     /\ blockchain' = c
                     /\ StepReturns([fr EXCEPT !.saved = fr.probe], "CATCHUP",
                                    fr.probe + 1)
               \/ /\ fr.probe # fr.height
                  /\ MayCheck(fr, fr.probe)
                  /\ \E c \in Chains, bh \in AdoptedHeights(fr, fr.probe) :
                     EnterBinary(BinWarm([fr EXCEPT !.good = fr.probe,
                                                    !.bh = bh], hc), c)
               \/ /\ MayNotCheck(fr, fr.probe)
                  /\ blockchain' = blockchain
                  /\ IF fr.checkp
                     THEN Raises("graceful", [NoFrame EXCEPT !.raise_at =
                                              "conflicts with checkpoints"])
                     ELSE /\ fpc' = "back"
                          /\ frame' = ClampProbe([fr EXCEPT !.bad = fr.probe,
                                                     !.probe = fr.probe - fr.delta,
                                                     !.delta = NextDelta(fr.delta)])
                          /\ TaskGoesOn
       /\ CacheAfter(hc)
    /\ UNCHANGED <<ready, tip, max_checkpoint, nTips>>
    /\ UNCHANGED outsideIfaceVars

\* _search_headers_binary, lines 1150-1153, and
\* _resolve_potential_chain_fork_given_forkpoint, lines 1166-1183: the bad
\* header must connect to the adopted chain whatever its height (the answer
\* is the store's) and must not check against any chain; with bh the height
\* of self.blockchain, which must not be below `good`, the chain ends at
\* `good`, or a fork is created by fork(bad_header) and adopted, and its
\* fork point must be `bad`.
ResolveFork(f, chain) ==
    \/ /\ blockchain' = chain
       /\ RaisesAt("unexpected bad header")
    \/ /\ MayCheck(f, f.bad)
       /\ blockchain' = chain
       /\ RaisesAt("bad_header must not check")
    \/ /\ MayNotCheck(f, f.bad)
       /\ IF f.bh < f.good
          THEN blockchain' = chain /\ RaisesAt("bh >= good")
          ELSE IF ChainEndsAt(f.bh, f.good)
          THEN /\ blockchain' = chain
               /\ StepReturns(f, "NO_FORK", f.good + 1)
          ELSE \E b \in Chains, fp \in ForkPointsOf(f) :
               /\ blockchain' = b
               /\ IF fp # f.bad
                  THEN RaisesAt("forkpoint")
                  ELSE StepReturns([f EXCEPT !.forkpoint = fp],
                                   "FORK", f.bad + 1)

\* get_block_header, lines 783-784, at line 1141: the header is served from
\* the cache. At `good`, with no request made by the cache warming of line
\* 1139, it is the header that has checked before, and it checks again.
SameHeader(f, height) == height = f.good /\ f.warm_count = 0

\* _search_headers_binary, lines 1142-1148: a header that checks raises
\* `good` to its height and its chain, of height bh, is adopted; one that
\* does not lowers `bad` to it.
Bisect_Swapped(f, height, checks, bh) ==
    IF checks THEN [f EXCEPT !.bad = height]
              ELSE [f EXCEPT !.good = height, !.bh = bh]
Bisect_KeepsChain(f, height, checks, bh) ==
    IF checks THEN [f EXCEPT !.good = height] ELSE [f EXCEPT !.bad = height]
Bisect(f, height, checks, bh) ==
    IF checks THEN [f EXCEPT !.good = height, !.bh = bh]
              ELSE [f EXCEPT !.bad = height]

\* _search_headers_binary, lines 1135-1156, one turn of the loop: the
\* headers of a pending cache warming and the header in the middle have
\* arrived; the header moves `good` or `bad`; when they meet, the bad header
\* must connect and the fork point is resolved.
BinProbe ==
    /\ ResolverRuns
    /\ fpc = "bin"
    /\ \E n \in WarmCounts(frame) :
       LET ok == HeadersAccepted(n, frame.warm_from, frame.warm_count)
           hc == Warmed(frame, headers_cache, IF ok THEN n ELSE 0)
           fr == Received(frame)
           height == (fr.good + fr.bad) \div 2
       IN
       /\ IF ~ok
          THEN blockchain' = blockchain /\ FetchRaises("other")
          ELSE \E c \in Chains \cup {NoChain}, bh \in AdoptedHeights(fr, height) :
               LET chain == IF c = NoChain THEN blockchain ELSE c
                   f == Bisect(fr, height, c # NoChain, bh)
               IN /\ IF c = NoChain
                     THEN MayNotCheck(fr, height) /\ ~SameHeader(frame, height)
                     ELSE MayCheck(fr, height)
                  /\ IF f.good + 1 = f.bad
                     THEN ResolveFork(f, chain)
                     ELSE EnterBinary(BinWarm(f, hc), chain)
       /\ CacheAfter(hc)
    /\ UNCHANGED <<ready, tip, max_checkpoint, nTips>>
    /\ UNCHANGED outsideIfaceVars

\* The height of the header the resolver is about to look at.
ProbeHeight ==
    IF fpc = "step" THEN frame.height
    ELSE IF fpc = "back" THEN frame.probe
    ELSE (frame.good + frame.bad) \div 2

\* A request of the resolver fails while it waits for the answer: it times
\* out (RequestTimedOut, a GracefulDisconnect) or the answer is rejected.
\* No request is sent for a header that the cache holds (line 783).
RequestFails(e) ==
    /\ ResolverRuns
    /\ fpc \in {"ff", "step", "back", "bin"}
    /\ fpc = "ff" \/ frame.warm_count > 0 \/ ProbeHeight \notin headers_cache
    /\ FetchRaises(e)
    /\ CacheAfter(headers_cache)
    /\ UNCHANGED <<ready, tip, blockchain, max_checkpoint, nTips>>
    /\ UNCHANGED outsideIfaceVars

\* The heights a caller outside run_fetch_blocks passes to sync_until.
DirectHeights == {0, 3}
\* The tip of an interface whose sync_until is called from outside.
NearTip == 150
\* The tip of the catch-up of a fresh client from an honest server.
FarTip == 10000
\* The height of the trivial reorg: the local chain and the server's tip.
ReorgTip == 200
\* The deep fork: the server's tip, and the heights up to which the local
\* chain, as high as the server's, may agree with the server's chain.
ForkTip == 1000
ForkPoints == {489, 500, 744}
\* The stores a step called alone may find.
StepScenarios ==
    {[tip |-> ReorgTip, local_height |-> ReorgTip, checks_upto |-> ReorgTip - 1]}
    \cup {[tip |-> ForkTip, local_height |-> ForkTip, checks_upto |-> F] :
             F \in ForkPoints}

\* sync_until, lines 1055-1057, called by a coroutine outside the taskgroup
\* (next_height is "typically the tip, except in unit tests").
SyncUntilCall ==
    /\ fpc = "call"
    /\ ~frame.only_step
    /\ \E height \in DirectHeights, next_height \in DirectHeights \cup {tip} :
       /\ tip = FarTip => height = 0 /\ next_height = tip
       /\ fpc' = "sync"
       /\ frame' = [frame EXCEPT !.height = height, !.arg_height = height,
                                 !.next_height = next_height]
    /\ TaskGoesOn
    /\ UNCHANGED <<ready, tip, blockchain, max_checkpoint, nTips, headers_cache>>
    /\ UNCHANGED outsideIfaceVars

\* step(tip) called by a coroutine outside the taskgroup, lines 1088-1093.
StepOutside ==
    /\ fpc = "call"
    /\ frame.only_step
    /\ StepCall([frame EXCEPT !.height = tip, !.arg_height = tip,
                              !.next_height = tip])
    /\ UNCHANGED <<ready, tip, blockchain, max_checkpoint, nTips, headers_cache>>
    /\ UNCHANGED outsideIfaceVars

\* The interface with its four tasks just spawned, or a ready interface
\* whose sync_until is about to be called from outside on a store that
\* answers freely, or whose step is about to be called on the store of the
\* trivial reorg (one local chain at ReorgTip, which the server's chain
\* leaves at its last header) or of the deep fork (one local chain at
\* ForkTip, which the server's chain leaves above a fork point).
ResolverInit ==
    /\ ver = "ok"
    /\ rootpc = "children"
    /\ outcome = "none"
    /\ got_disconnected = FALSE
    /\ children = GroupTasks \cup {"_poll_sbuffer"}
    /\ cancelled = {}
    /\ session = "open"
    /\ nSessions = 1
    /\ nDown = 0
    /\ nCancels = 0
    /\ max_checkpoint \in Checkpoints
    /\ \/ /\ ready = "pending"
          /\ FetchStart(max_checkpoint)
       \/ /\ ready = "resolved"
          /\ fpc = "call"
          /\ tip \in {NearTip, FarTip}
          /\ blockchain \in Chains
          /\ frame = [NoFrame EXCEPT !.direct = TRUE, !.honest = (tip = FarTip)]
          /\ nTips = MaxTips
          /\ headers_cache = {}
       \/ \E s \in StepScenarios :
          /\ ready = "resolved"
          /\ fpc = "call"
          /\ tip = s.tip
          /\ blockchain = "chain_a"
          /\ frame = [NoFrame EXCEPT !.direct = TRUE, !.only_step = TRUE,
                                     !.local_height = s.local_height,
                                     !.checks_upto = s.checks_upto]
          /\ nTips = MaxTips
          /\ headers_cache = {}

IfaceNext ==
    \/ RootStart
    \/ SslContext
    \/ ProbeDone
    \/ Connect
    \/ \E answer \in VersionAnswers : VersionDone(answer)
    \/ SessionLost
    \/ ReadyTimeout
    \/ \E c \in ChildNames, e \in {"graceful", "rpc_listed", "rpc", "other"} : ChildFails(c, e)
    \/ MarkReady
    \/ ProcessTip
    \/ SpawnNoise
    \/ \E c \in ChildNames : ChildEnds(c)
    \/ JoinDone
    \/ FinCancelDone
    \/ FinDownDone
    \/ CancelRoot

ResolverNext ==
    \/ MarkReady
    \/ ReadyTimeout
    \/ ProcessTip
    \/ SyncUntilCall
    \/ StepOutside
    \/ SyncLoop
    \/ FastForwardDone
    \/ StepHeader
    \/ BackProbe
    \/ BinProbe
    \/ \E e \in {"graceful", "other"} : RequestFails(e)
    \/ SpawnNoise

(***************************************************************************)
(* The bhi_lock section of _process_header_at_tip, for several interfaces  *)
(* of one supervisor                                                       *)
(*                                                                         *)
(*   bhi_lock  the interface that holds network.bhi_lock (0: it is free)   *)
(*   lpc       per interface: "idle" (waiting for a tip), "waiting"        *)
(*             (suspended in `async with self.network.bhi_lock`),          *)
(*             "syncing" (inside sync_until, at one of its network waits), *)
(*             and how its task has ended: "raised", "timed_out",          *)
(*             "cancelled" (inside sync_until), "cancelled_waiting"        *)
(*   waits     per interface: the network waits of its sync_until call     *)
(*             that have passed                                            *)
(*   ltips     per interface: the tips it has taken                        *)
(***************************************************************************)
LockIfaces == {1, 2, 3}
\* Network waits of one sync_until call.
MaxWaits == 2
\* Tips one interface processes.
MaxLockTips == 2

LockInit ==
    /\ bhi_lock = 0
    /\ lpc = [i \in LockIfaces |-> "idle"]
    /\ waits = [i \in LockIfaces |-> 0]
    /\ ltips = [i \in LockIfaces |-> 0]

\* network.bhi_lock is an asyncio.Lock: it can be taken when nobody holds it.
LockFree == bhi_lock = 0

\* `async with` (line 1042) runs the lock's release when its body is left,
\* whether it returns or raises (`how`).
Release_NotOnCancel(i, how) ==
    bhi_lock' = IF how = "cancelled" THEN bhi_lock ELSE 0

Release(i, how) ==
    bhi_lock' = 0

\* run_fetch_blocks, lines 1009-1023, and _process_header_at_tip, lines
\* 1041-1042: a tip arrives and the task asks for the lock.
LockTip(i) ==
    /\ lpc[i] = "idle"
    /\ ltips[i] < MaxLockTips
    /\ ltips' = [ltips EXCEPT ![i] = ltips[i] + 1]
    /\ lpc' = [lpc EXCEPT ![i] = "waiting"]
    /\ UNCHANGED <<bhi_lock, waits>>
    /\ UNCHANGED nonLockVars

\* lines 1042-1046: the lock is acquired; the section returns False at once
\* (and the lock is released), or sync_until starts and waits for the network.
LockAcquire(i) ==
    /\ lpc[i] = "waiting"
    /\ LockFree
    /\ \/ /\ lpc' = [lpc EXCEPT ![i] = "idle"]
          /\ Release(i, "return")
       \/ /\ lpc' = [lpc EXCEPT ![i] = "syncing"]
          /\ bhi_lock' = i
    /\ waits' = [waits EXCEPT ![i] = 0]
    /\ UNCHANGED ltips
    /\ UNCHANGED nonLockVars

\* The task is cancelled while it waits for the lock.
LockWaiterCancelled(i) ==
    /\ lpc[i] = "waiting"
    /\ lpc' = [lpc EXCEPT ![i] = "cancelled_waiting"]
    /\ UNCHANGED <<bhi_lock, waits, ltips>>
    /\ UNCHANGED nonLockVars

\* sync_until (line 1046): one of its network waits ends and the next starts.
LockSyncWait(i) ==
    /\ lpc[i] = "syncing"
    /\ waits[i] < MaxWaits
    /\ waits' = [waits EXCEPT ![i] = waits[i] + 1]
    /\ UNCHANGED <<bhi_lock, lpc, ltips>>
    /\ UNCHANGED nonLockVars

\* lines 1042-1047: sync_until returns, raises, times out at a request or is
\* cancelled at a wait, and the section is left.
LockExit(i, how) ==
    /\ lpc[i] = "syncing"
    /\ lpc' = [lpc EXCEPT ![i] = IF how = "return" THEN "idle" ELSE how]
    /\ Release(i, how)
    /\ UNCHANGED <<waits, ltips>>
    /\ UNCHANGED nonLockVars

LockNext ==
    \E i \in LockIfaces :
       \/ LockTip(i)
       \/ LockAcquire(i)
       \/ LockWaiterCancelled(i)
       \/ LockSyncWait(i)
       \/ \E how \in {"return", "raised", "timed_out", "cancelled"} : LockExit(i, how)

(***************************************************************************)
(* request_chunk_below_max_checkpoint, called concurrently on one ready    *)
(* interface                                                               *)
(*                                                                         *)
(*   requested_chunks  self._requested_chunks                              *)
(*   ccall             per caller: its position ("idle", "fetching" (in    *)
(*                     get_block_headers), or how its last call ended) and *)
(*                     the chunk index of its call                         *)
(*   fetching          per chunk index: the get_block_headers requests of  *)
(*                     these calls that wait for their response            *)
(*   nCalls            calls made so far                                   *)
(***************************************************************************)
ChunkCallers == {1, 2, 3}
\* Calls of request_chunk_below_max_checkpoint altogether.
MaxCalls == 4
\* The last checkpoint of the network the callers verify against, and the
\* heights they ask for (the last one is above the checkpoint).
ChunkCheckpoint == 4500
ChunkHeights == {0, 100, 2016, 4031, 4400, 5000}
ChunkIndexes == 0..2
\* The tip of that interface.
ChunkHeights_Tip == 6000

ChunkInit ==
    /\ requested_chunks = {}
    /\ ccall = [c \in ChunkCallers |-> [pc |-> "idle", index |-> 0]]
    /\ fetching = [i \in ChunkIndexes |-> 0]
    /\ nCalls = 0

\* line 844: the chunk is being requested already.
AlreadyRequested_Never(index) == FALSE

AlreadyRequested(index) == index \in requested_chunks

\* lines 840-849: a call for `height`, up to the request of the chunk.
ChunkCall(c, height) ==
    /\ ccall[c].pc # "fetching"
    /\ nCalls < MaxCalls
    /\ nCalls' = nCalls + 1
    /\ LET index == height \div CHUNK_SIZE IN
       IF height > max_checkpoint
       THEN /\ ccall' = [ccall EXCEPT ![c] = [pc |-> "assert_failed", index |-> 0]]
            /\ UNCHANGED <<requested_chunks, fetching>>
       ELSE IF AlreadyRequested(index)
       THEN /\ ccall' = [ccall EXCEPT ![c] = [pc |-> "skipped", index |-> index]]
            /\ UNCHANGED <<requested_chunks, fetching>>
       ELSE /\ requested_chunks' = requested_chunks \cup {index}
            /\ fetching' = [fetching EXCEPT ![index] = fetching[index] + 1]
            /\ ccall' = [ccall EXCEPT ![c] = [pc |-> "fetching", index |-> index]]
    /\ UNCHANGED nonChunkVars

\* lines 849-855: get_block_headers ends (`how`: it returns the headers, or
\* raises RequestCorrupted, or times out, or the call is cancelled at the
\* await); the finally clause runs, and a chunk that arrived is connected.
ChunkFetchEnds(c, how) ==
    /\ ccall[c].pc = "fetching"
    /\ LET index == ccall[c].index IN
       /\ fetching' = [fetching EXCEPT ![index] = fetching[index] - 1]
       /\ requested_chunks' = requested_chunks \ {index}
       /\ \E conn \in BOOLEAN :
          ccall' = [ccall EXCEPT ![c].pc =
                       IF how # "ok" THEN how
                       ELSE IF conn THEN "connected" ELSE "corrupted"]
    /\ UNCHANGED nCalls
    /\ UNCHANGED nonChunkVars

ChunkNext ==
    \E c \in ChunkCallers :
       \/ \E height \in ChunkHeights : ChunkCall(c, height)
       \/ \E how \in {"ok", "corrupted", "timed_out", "cancelled"} : ChunkFetchEnds(c, how)

\* A ready interface: its tasks run, a tip has arrived and _mark_ready has
\* resolved `ready`.
ReadyIfaceInit ==
    /\ ver = "ok"
    /\ rootpc = "children"
    /\ outcome = "none"
    /\ got_disconnected = FALSE
    /\ ready = "resolved"
    /\ children = GroupTasks \cup {"_poll_sbuffer"}
    /\ cancelled = {}
    /\ session = "open"
    /\ nSessions = 1
    /\ nDown = 0
    /\ nCancels = 0
    /\ fpc = "get"
    /\ blockchain = "chain_a"
    /\ frame = NoFrame
    /\ nTips = 1
    /\ headers_cache = {}

(***************************************************************************)
(* get_block_headers: the checks of a blockchain.block.headers response    *)
(*                                                                         *)
(*   gbh  the call: its position ("idle", "sent", or how it ended:         *)
(*        "returned", "Exception", "RequestCorrupted"), its arguments, the *)
(*        response and the number of headers returned                      *)
(***************************************************************************)
HEADER_SIZE == 80

\* Arguments and response fields that make each check pass and fail.
HeaderStarts == {0, 5, 2016}
HeaderCounts == {-1, 0, 1, 2, MAX_NUM_HEADERS_PER_REQUEST, MAX_NUM_HEADERS_PER_REQUEST + 1}
ResCounts == {-1, 0, 1, 2, 3, MAX_NUM_HEADERS_PER_REQUEST, MAX_NUM_HEADERS_PER_REQUEST + 1}
ResMaxes == {-1, MAX_NUM_HEADERS_PER_REQUEST - 1, MAX_NUM_HEADERS_PER_REQUEST, 5000}
\* Lengths of the hex string: that of the counted headers, one header more
\* or less, two characters more or less.
HexLens(count) ==
    {l \in {HEADER_SIZE * 2 * count, HEADER_SIZE * 2 * (count + 1),
            HEADER_SIZE * 2 * (count - 1), HEADER_SIZE * 2 * count + 2,
            HEADER_SIZE * 2 * count - 2} : l >= 0}
HeaderTips == {1, 6, 2016, 5000}

NoResponse == [count |-> 0, shape |-> "none", hexlen |-> 0, max |-> 0]

HeadersInit ==
    gbh = [pc |-> "idle", n |-> 0, start_height |-> 0, count |-> 0,
           res |-> NoResponse]

\* util.chunks(bfh(hex), size=HEADER_SIZE), line 832: the number of pieces of
\* at most HEADER_SIZE bytes the decoded string is cut into.
NumChunks(hexlen) == ((hexlen \div 2) + HEADER_SIZE - 1) \div HEADER_SIZE

\* lines 823-830: the response holds more headers than asked for, or fewer
\* although its last header is below the tip.
WrongCount_IgnoreTip(res, start_height, count) ==
    res.count > count

WrongCount(res, start_height, count) ==
    \/ res.count > count
    \/ res.count < count /\ start_height + res.count - 1 < tip

\* lines 812-830: the response is rejected.
ResponseCorrupted(res, start_height, count) ==
    \/ res.shape # "ok"
    \/ res.count < 0
    \/ res.max < 0
    \/ res.hexlen # HEADER_SIZE * 2 * res.count
    \/ res.max < MAX_NUM_HEADERS_PER_REQUEST
    \/ WrongCount(res, start_height, count)

\* lines 802-810: the arguments are checked and the request is sent.
HeadersCall(start_height, count) ==
    /\ gbh.pc = "idle"
    /\ gbh' = [gbh EXCEPT !.start_height = start_height, !.count = count,
                          !.pc = IF 0 < count /\ count <= MAX_NUM_HEADERS_PER_REQUEST
                                 THEN "sent" ELSE "Exception"]
    /\ UNCHANGED nonHeadersVars

\* lines 810-833: the response arrives; it is checked and cut into headers.
\* (shape: a field is missing, the hex field is no hex string, or all
\* fields have their types.)
HeadersResponse(res) ==
    /\ gbh.pc = "sent"
    /\ gbh' = IF ResponseCorrupted(res, gbh.start_height, gbh.count)
              THEN [gbh EXCEPT !.pc = "RequestCorrupted", !.res = res]
              ELSE [gbh EXCEPT !.pc = "returned", !.res = res,
                               !.n = NumChunks(res.hexlen)]
    /\ UNCHANGED nonHeadersVars

HeadersNext ==
    \/ \E start_height \in HeaderStarts, count \in HeaderCounts :
          HeadersCall(start_height, count)
    \/ \E shape \in {"ok", "missing_field", "not_hex"}, c \in ResCounts, m \in ResMaxes :
          \E l \in HexLens(c) :
             HeadersResponse([count |-> c, shape |-> shape, hexlen |-> l,
                              max |-> m])

(***************************************************************************)
(* _get_ssl_context: the saved certificate of a server and its first fetch *)
(*                                                                         *)
(*   cert_file             the file at cert_path: absent, empty (the       *)
(*                         server is CA-signed), a PEM certificate (with   *)
(*                         the SHA-256 of the certificate in it) or        *)
(*                         something that does not parse                   *)
(*   cert_expired          check_date of the saved certificate fails       *)
(*   cpc                   where _get_ssl_context stands: "start",         *)
(*                         "probing" (is_server_ca_signed), "fetching"     *)
(*                         (_save_certificate), "done", or the exception   *)
(*                         it raised                                       *)
(*   expected_fingerprint  _get_expected_fingerprint() ("": none)          *)
(*   cert_writes           writes of the file in this start-up             *)
(*   sslc                  the context returned: "ca" (the CA bundle is    *)
(*                         trusted) or "pinned" (the file is)              *)
(*   nMismatch             cert_mismatch events triggered                  *)
(*   probe, fetched        what is_server_ca_signed answered and the       *)
(*                         fingerprint of the certificate fetched in this  *)
(*                         start-up                                        *)
(*   tries                 _fetch_certificate calls of _save_certificate   *)
(*   nStartups             start-ups so far                                *)
(*   unlinked              the file was deleted in this start-up           *)
(***************************************************************************)
\* Start-ups of the interface against one certificate store.
MaxStartups == 2
\* _save_certificate, line 711.
MaxFetchTries == 10

\* hashlib.sha256(cert).hexdigest() of the certificates a server may present.
CertFingerprints == {"ab12", "cd34"}
\* NETWORK_SERVERFINGERPRINT as the user may have typed it.
ExpectedFingerprints == {"", "ab12", "AB12", "Ab12", "cd34"}

\* str.lower on the fingerprints above.
Lower(fp) == IF fp \in {"AB12", "Ab12"} THEN "ab12" ELSE fp

Absent == [kind |-> "absent", fp |-> ""]
Empty == [kind |-> "empty", fp |-> ""]
Unparsable == [kind |-> "unparsable", fp |-> ""]
Pem(fp) == [kind |-> "pem", fp |-> fp]

CertInit ==
    /\ cert_file \in {Absent, Empty, Unparsable} \cup {Pem(fp) : fp \in CertFingerprints}
    /\ cert_expired \in BOOLEAN
    /\ cert_file.kind # "pem" => cert_expired = FALSE
    /\ cpc = "start"
    /\ expected_fingerprint \in ExpectedFingerprints
    /\ cert_writes = 0
    /\ sslc = "none"
    /\ nMismatch = 0
    /\ probe = "none"
    /\ fetched = ""
    /\ tries = 0
    /\ nStartups = 1
    /\ unlinked = FALSE

\* _verify_certificate_fingerprint, lines 751-759: nothing is expected, or
\* the fingerprints are equal up to the case of the letters.
FingerprintOk_Always(fp) == TRUE

FingerprintOk(fp) ==
    \/ expected_fingerprint = ""
    \/ Lower(fp) = Lower(expected_fingerprint)

\* _get_ssl_context, lines 633-642: the context for the file in the store.
ContextFor_Pinned(file) == "pinned"

ContextFor(file) == IF file.kind = "empty" THEN "ca" ELSE "pinned"

\* _get_ssl_context returns the context for `file`.
CertDone(file) ==
    /\ cpc' = "done"
    /\ sslc' = ContextFor(file)

\* _get_ssl_context, lines 626-627, with _is_saved_ssl_cert_available, lines
\* 591-617: the saved file is used, or refused, or there is none (or an
\* expired one, which is deleted) and the server is probed.
CertStart ==
    /\ cpc = "start"
    /\ IF cert_file.kind = "absent"
       THEN /\ cpc' = "probing"
            /\ UNCHANGED <<cert_file, cert_expired, sslc, nMismatch>>
       ELSE IF cert_file.kind = "empty"
       THEN /\ IF expected_fingerprint # ""
               THEN cpc' = "InvalidOptionCombination" /\ sslc' = sslc
               ELSE CertDone(cert_file)
            /\ UNCHANGED <<cert_file, cert_expired, nMismatch>>
       ELSE IF cert_file.kind = "unparsable"
       THEN /\ cpc' = "ErrorParsingSSLCert"
            /\ UNCHANGED <<cert_file, cert_expired, sslc, nMismatch>>
       ELSE IF cert_expired
       THEN /\ cert_file' = Absent
            /\ cert_expired' = FALSE
            /\ cpc' = "probing"
            /\ UNCHANGED <<sslc, nMismatch>>
       ELSE IF ~FingerprintOk(cert_file.fp)
       THEN /\ nMismatch' = nMismatch + 1
            /\ cpc' = "ErrorSSLCertFingerprintMismatch"
            /\ UNCHANGED <<cert_file, cert_expired, sslc>>
       ELSE /\ CertDone(cert_file)
            /\ UNCHANGED <<cert_file, cert_expired, nMismatch>>
    /\ unlinked' = (cert_file.kind = "pem" /\ cert_expired)
    /\ UNCHANGED <<expected_fingerprint, cert_writes, probe, fetched, tries, nStartups>>
    /\ UNCHANGED nonCertVars

\* The exceptions the probe session of is_server_ca_signed may end with,
\* besides the ConnectError of a self-signed certificate: a ConnectError of
\* another cause, an OSError or a SOCKSError of the connection, the
\* GracefulDisconnect open_session makes of an RPCError of server.version
\* (lines 936-937), the RequestTimedOut of that request.
ProbeFailures ==
    {"ConnectError", "OSError", "SOCKSError", "GracefulDisconnect", "RequestTimedOut"}

\* is_server_ca_signed, lines 568-576, and _get_ssl_context, lines 628-631:
\* the exception _get_ssl_context raises when the probe has raised e.
ProbeRaises_All(e) == "ErrorGettingSSLCertFromServer"
ProbeRaises(e) ==
    IF e \in {"OSError", "ConnectError", "SOCKSError"}
    THEN "ErrorGettingSSLCertFromServer"
    ELSE e

\* _try_saving_ssl_cert_for_first_time, lines 580-589, and is_server_ca_signed,
\* lines 560-578: the probe with the CA bundle succeeds (the empty file is
\* written, unless a fingerprint is expected), or fails because the
\* certificate is self-signed (_save_certificate starts), or fails otherwise.
CertProbeDone(answer) ==
    /\ cpc = "probing"
    /\ probe' = answer
    /\ IF answer = "ca_signed"
       THEN IF expected_fingerprint # ""
            THEN /\ cpc' = "InvalidOptionCombination"
                 /\ UNCHANGED <<cert_file, cert_writes, sslc>>
            ELSE /\ cert_file' = Empty
                 /\ cert_writes' = cert_writes + 1
                 /\ CertDone(Empty)
       ELSE IF answer = "self_signed"
       THEN /\ cpc' = "fetching"
            /\ UNCHANGED <<cert_file, cert_writes, sslc>>
       ELSE /\ cpc' = ProbeRaises(answer)
            /\ UNCHANGED <<cert_file, cert_writes, sslc>>
    /\ UNCHANGED <<cert_expired, expected_fingerprint, nMismatch, fetched, tries, nStartups,
                   unlinked>>
    /\ UNCHANGED nonCertVars

\* _save_certificate, lines 711-729: _fetch_certificate returns nothing (and
\* the loop sleeps, or gives up after the last try), or fails, or returns the
\* certificate with fingerprint fp, which is verified and written (a
\* certificate may be past its date already: `old`).
CertFetchDone(fp, old) ==
    /\ cpc = "fetching"
    /\ tries' = tries + 1
    /\ IF fp = "error"
       THEN /\ cpc' = "ErrorGettingSSLCertFromServer"
            /\ UNCHANGED <<cert_file, cert_expired, cert_writes, sslc, nMismatch, fetched>>
       ELSE IF fp = ""
       THEN /\ cpc' = IF tries + 1 = MaxFetchTries THEN "GracefulDisconnect" ELSE "fetching"
            /\ UNCHANGED <<cert_file, cert_expired, cert_writes, sslc, nMismatch, fetched>>
       ELSE /\ fetched' = fp
            /\ IF ~FingerprintOk(fp)
               THEN /\ nMismatch' = nMismatch + 1
                    /\ cpc' = "ErrorSSLCertFingerprintMismatch"
                    /\ UNCHANGED <<cert_file, cert_expired, cert_writes, sslc>>
               ELSE /\ cert_file' = Pem(fp)
                    /\ cert_expired' = old
                    /\ cert_writes' = cert_writes + 1
                    /\ CertDone(Pem(fp))
                    /\ UNCHANGED nMismatch
    /\ UNCHANGED <<expected_fingerprint, probe, nStartups, unlinked>>
    /\ UNCHANGED nonCertVars

\* Time passes and the saved certificate passes its date.
CertExpires ==
    /\ cert_file.kind = "pem"
    /\ ~cert_expired
    /\ cpc \notin {"probing", "fetching"}
    /\ cert_expired' = TRUE
    /\ UNCHANGED <<cert_file, cpc, expected_fingerprint, cert_writes, sslc, nMismatch,
                   probe, fetched, tries, nStartups, unlinked>>
    /\ UNCHANGED nonCertVars

\* The interface has ended and a new one is started for the server.
CertRestart ==
    /\ cpc \notin {"start", "probing", "fetching"}
    /\ nStartups < MaxStartups
    /\ nStartups' = nStartups + 1
    /\ cpc' = "start"
    /\ cert_writes' = 0
    /\ sslc' = "none"
    /\ probe' = "none"
    /\ fetched' = ""
    /\ tries' = 0
    /\ unlinked' = FALSE
    /\ UNCHANGED <<cert_file, cert_expired, expected_fingerprint, nMismatch>>
    /\ UNCHANGED nonCertVars

CertNext ==
    \/ CertStart
    \/ \E answer \in {"ca_signed", "self_signed"} \cup ProbeFailures :
          CertProbeDone(answer)
    \/ \E fp \in CertFingerprints \cup {"", "error"}, old \in BOOLEAN : CertFetchDone(fp, old)
    \/ CertExpires
    \/ CertRestart

\* The other components with a certificate store at rest.
CertAtRest ==
    /\ cert_file = Absent
    /\ cert_expired = FALSE
    /\ cpc = "start"
    /\ expected_fingerprint = ""
    /\ cert_writes = 0
    /\ sslc = "none"
    /\ nMismatch = 0
    /\ probe = "none"
    /\ fetched = ""
    /\ tries = 0
    /\ nStartups = 1
    /\ unlinked = FALSE

(***************************************************************************)
(* Typed requests issued from outside the interface's taskgroup            *)
(*                                                                         *)
(*   ext_corrupted  one of these requests has raised RequestCorrupted      *)
(*   ext_served     the requests of this kind the session has answered     *)
(***************************************************************************)
\* Typed requests issued from outside the taskgroup.
MaxExtRequests == 3

ExtInit ==
    /\ ext_corrupted = FALSE
    /\ ext_served = 0

\* get_transaction, lines 1283-1297, awaited by a coroutine that is not a
\* task of the interface's taskgroup: the session answers; the answer is
\* returned, or it fails a check and RequestCorrupted is raised to the
\* awaiting coroutine.
ExternalRequest(corrupted) ==
    /\ session = "open"
    /\ rootpc = "children"
    /\ ext_served < MaxExtRequests
    /\ ext_served' = ext_served + 1
    /\ ext_corrupted' = (ext_corrupted \/ corrupted)
    /\ UNCHANGED nonExtVars

\* A connected interface, the requests from outside and the ways it ends.
ExtNext ==
    \/ \E corrupted \in BOOLEAN : ExternalRequest(corrupted)
    \/ \E c \in ChildNames, e \in {"graceful", "rpc_listed", "rpc", "other"} : ChildFails(c, e)
    \/ \E c \in ChildNames : ChildEnds(c)
    \/ SessionLost
    \/ JoinDone
    \/ FinCancelDone
    \/ FinDownDone
    \/ CancelRoot

(***************************************************************************)
(* Properties of the interface's root task.                                *)
(***************************************************************************)

\* C9: however the root task ends (return, GracefulDisconnect, RPCError,
\* another exception, cancellation), at its end got_disconnected is set, every
\* remaining task of the taskgroup is cancelled, connection_down was called
\* exactly once and `ready` is done.
C9_EveryTerminationCleansUp ==
    rootpc = "done" =>
        /\ got_disconnected
        /\ children \subseteq cancelled
        /\ nDown = 1
        /\ ready # "pending"

\* C10: once got_disconnected is set it stays set, no session is opened and
\* no task is added to the interface's taskgroup.
C10_DisconnectedIsFinal ==
    [][got_disconnected =>
          /\ got_disconnected'
          /\ nSessions' = nSessions
          /\ session' # "open"
          /\ children' \subseteq children]_vars

\* The interface is disconnected after its tasks ran, and the clean-up of the
\* finally clause, which sets the event a second time, has ended.
C10_Witness ==
    /\ got_disconnected
    /\ rootpc = "done"
    /\ nSessions >= 1
    /\ ready = "resolved"

\* The components other than the session, the transport and the interface
\* before anything has happened in them.
(***************************************************************************)
(* request_fee_estimates and get_estimatefee                               *)
(*                                                                         *)
(*   fee_estimates_eta  the dict: target -> stored fee                     *)
(*   fee_pc             position of the request_fee_estimates task         *)
(*   fee_tasks          per target of the running round, the outcome of    *)
(*                      its get_estimatefee task ("pending": no answer yet)*)
(*   nFeeRounds         rounds started so far                              *)
(*                                                                         *)
(* A number of a response is a record of its JSON type and its value in    *)
(* units of 10^-9 BTC, so that a float below one satoshi can be told from  *)
(* zero; a fee returned by get_estimatefee is a record of its Python type  *)
(* and its value.                                                          *)
(***************************************************************************)
\* bitcoin.COIN, the satoshis of one BTC.
COIN == 100000000
\* The units of a response's number in one BTC.
ResUnit == 1000000000
\* fee_policy.FEE_ETA_TARGETS.
FEE_ETA_TARGETS == <<25, 10, 5, 2, 1>>
\* FEE_ETA_TARGETS[0:-1]
FeeTargets == Range(Front(FEE_ETA_TARGETS))

\* What the server can answer to blockchain.estimatefee: a JSON value, an
\* error, or nothing before the request times out.
FeeResponses ==
    {[t |-> "int", kind |-> "result", num |-> 0 - ResUnit],
     [t |-> "float", kind |-> "result", num |-> 0 - ResUnit],
     [t |-> "float", kind |-> "result", num |-> 0 - 5],
     [t |-> "int", kind |-> "result", num |-> 0],
     [t |-> "float", kind |-> "result", num |-> 15],
     [t |-> "str", kind |-> "result", num |-> 0],
     [t |-> "cannot estimate fee", kind |-> "ProtocolError", num |-> 0],
     [t |-> "other", kind |-> "ProtocolError", num |-> 0],
     [t |-> "INTERNAL_ERROR", kind |-> "RPCError", num |-> 0],
     [t |-> "other", kind |-> "RPCError", num |-> 0],
     [t |-> "", kind |-> "RequestTimedOut", num |-> 0]}

Pending == [v |-> 0, t |-> "", kind |-> "pending"]
Raised(e) == [v |-> 0, t |-> e, kind |-> "raised"]
Fee(t, v) == [v |-> v, t |-> t, kind |-> "fee"]
MinusOne == Fee("int", 0 - 1)

\* int(x) of Python on n / d: truncation towards zero.
Trunc(n, d) == IF n >= 0 THEN n \div d ELSE 0 - ((0 - n) \div d)

\* get_estimatefee (lines 1426-1456), from the answer of the server to what
\* the coroutine returns or raises. A float -1.0 equals -1 and is returned
\* as it is.
get_estimatefee(r) ==
    CASE r.kind = "ProtocolError" ->
            IF r.t = "cannot estimate fee" THEN MinusOne ELSE Raised("ProtocolError")
      [] r.kind = "RPCError" ->
            IF r.t = "INTERNAL_ERROR" THEN MinusOne ELSE Raised("RPCError")
      [] r.kind = "RequestTimedOut" -> Raised("RequestTimedOut")
      [] OTHER ->
            IF r.t \in {"int", "float"} /\ r.num = 0 - ResUnit
            THEN Fee(r.t, 0 - 1)
            ELSE IF r.t \notin {"int", "float"} \/ r.num < 0
            THEN Raised("RequestCorrupted")
            ELSE Fee("int", Trunc(r.num * COIN, ResUnit))

FeeInit ==
    /\ fee_estimates_eta = EmptyDict
    /\ fee_pc = "start"
    /\ fee_tasks = [k \in FeeTargets |-> Pending]
    /\ nFeeRounds = 0

\* Lines 989-993: the results of the tasks are stored, the negative ones
\* skipped.
StoreFees_NoSkip(eta, tasks) ==
    [k \in (DOMAIN eta) \cup FeeTargets |-> tasks[k]]
StoreFees(eta, tasks) ==
    [k \in (DOMAIN eta) \cup {t \in FeeTargets : tasks[t].v >= 0} |->
        IF k \in FeeTargets /\ tasks[k].v >= 0 THEN tasks[k] ELSE eta[k]]

\* Lines 985-988: a round starts, at the start of the task or when the
\* sleep of line 995 is over; one get_estimatefee task per target is
\* spawned.
FeeSpawn ==
    /\ fee_pc \in {"start", "sleep"}
    /\ nFeeRounds < MaxFeeRounds
    /\ fee_pc' = "join"
    /\ fee_tasks' = [k \in FeeTargets |-> Pending]
    /\ nFeeRounds' = nFeeRounds + 1
    /\ UNCHANGED <<fee_estimates_eta, nonFeeVars>>

\* The server answers the request of one task, or the request times out,
\* and the task returns a fee.
FeeAnswer(k, r) ==
    /\ fee_pc = "join"
    /\ fee_tasks[k] = Pending
    /\ get_estimatefee(r).kind = "fee"
    /\ fee_tasks' = [fee_tasks EXCEPT ![k] = get_estimatefee(r)]
    /\ UNCHANGED <<fee_estimates_eta, fee_pc, nFeeRounds, nonFeeVars>>

\* Lines 986-995: all tasks have returned; the group is left, the fees are
\* stored and the task sleeps.
FeeStore ==
    /\ fee_pc = "join"
    /\ \A t \in FeeTargets : fee_tasks[t].kind = "fee"
    /\ fee_estimates_eta' = StoreFees(fee_estimates_eta, fee_tasks)
    /\ fee_pc' = "sleep"
    /\ UNCHANGED <<fee_tasks, nFeeRounds, nonFeeVars>>

\* Line 986: the task of one target raises; the group cancels the tasks
\* that are pending and raises the exception when it is left, and
\* request_fee_estimates ends with it, its list of tasks dropped.
FeeTaskRaises(k, r) ==
    /\ fee_pc = "join"
    /\ fee_tasks[k] = Pending
    /\ get_estimatefee(r).kind = "raised"
    /\ fee_pc' = get_estimatefee(r).t
    /\ fee_tasks' = [t \in FeeTargets |-> Pending]
    /\ UNCHANGED <<fee_estimates_eta, nFeeRounds, nonFeeVars>>

\* The task is cancelled where it waits: in the group or in the sleep.
FeeCancelled ==
    /\ fee_pc \in {"join", "sleep"}
    /\ fee_pc' = "cancelled"
    /\ fee_tasks' = [t \in FeeTargets |-> Pending]
    /\ UNCHANGED <<fee_estimates_eta, nFeeRounds, nonFeeVars>>

FeeNext ==
    \/ FeeSpawn
    \/ \E k \in FeeTargets, r \in FeeResponses : FeeAnswer(k, r)
    \/ \E k \in FeeTargets, r \in FeeResponses : FeeTaskRaises(k, r)
    \/ FeeStore
    \/ FeeCancelled

(***************************************************************************)
(* get_history_for_scripthash                                              *)
(*                                                                         *)
(*   hist   the call: its position pc, the scripthash sh ("ok": a hash256  *)
(*          string), the response res of the server and the list ret it    *)
(*          returns.                                                       *)
(*                                                                         *)
(* A field of an item is a record of its JSON type t ("absent": the dict   *)
(* has no such field; "hash": a string that is a hash256) and its value v: *)
(* the number, or for a string a number that tells it from other strings.  *)
(***************************************************************************)
Field(t, v) == [v |-> v, t |-> t]
NoField == Field("absent", 0)
TxItem(height, tx_hash, fee) ==
    [height |-> height, tx_hash |-> tx_hash, fee |-> fee, dict |-> TRUE]

\* The items a server may put in the list.
HistItems ==
    {TxItem(Field("int", 1), Field("hash", 1), NoField),
     TxItem(Field("int", 1), Field("hash", 2), NoField),
     TxItem(Field("int", 2), Field("hash", 1), NoField),
     TxItem(Field("int", 2), Field("hash", 2), Field("int", 7)),
     TxItem(Field("int", 0 - 2), Field("hash", 3), NoField),
     TxItem(Field("int", 0), Field("hash", 3), Field("int", 0)),
     TxItem(Field("int", 0 - 1), Field("hash", 4), Field("int", 2)),
     TxItem(Field("int", 0), Field("hash", 1), Field("int", 0)),
     TxItem(Field("int", 0), Field("hash", 3), NoField),
     TxItem(Field("int", 0 - 1), Field("hash", 4), Field("int", 0 - 1)),
     TxItem(Field("int", 0), Field("hash", 4), Field("str", 1)),
     [TxItem(NoField, NoField, NoField) EXCEPT !.dict = FALSE],
     TxItem(NoField, Field("hash", 5), NoField),
     TxItem(Field("float", 1), Field("hash", 5), NoField),
     TxItem(Field("int", 1), NoField, NoField),
     TxItem(Field("int", 1), Field("str", 5), NoField)}

HistLists == UNION {[1..n -> HistItems] : n \in 0..MaxHistLen}

\* The responses: a list of items, or a value that is no list.
HistResponses ==
    {[list |-> TRUE, items |-> l] : l \in HistLists}
       \cup {[list |-> FALSE, items |-> <<>>]}

HistInit ==
    /\ hist \in {[pc |-> "start", res |-> r, sh |-> "ok", ret |-> <<>>] :
                   r \in HistResponses}
                  \cup {[pc |-> "start",
                         res |-> [list |-> TRUE, items |-> <<>>],
                         sh |-> "bad", ret |-> <<>>]}

HistAtRest ==
    hist = [pc |-> "start", res |-> [list |-> TRUE, items |-> <<>>],
            sh |-> "ok", ret |-> <<>>]

\* prev_height: a height, or float("inf").
Height(h) == [inf |-> FALSE, h |-> h]
Inf == [inf |-> TRUE, h |-> 0]
\* height < prev_height
Below(height, prev) == prev.inf \/ height < prev.h

\* Line 1311: prev_height after an item of the mempool.
AfterMempool_Keep(prev) == prev
AfterMempool(prev) == Inf

\* Lines 1303-1316, the loop over the items from item i on: TRUE when no
\* item raises.
RECURSIVE ItemsPass(_, _, _)
ItemsPass(items, i, prev) ==
    IF i > Len(items) THEN TRUE
    ELSE LET it == items[i] IN
         IF ~it.dict \/ it.height.t = "absent" THEN FALSE
         ELSE IF it.tx_hash.t = "absent" THEN FALSE
         ELSE IF it.height.t # "int" THEN FALSE
         ELSE IF it.tx_hash.t # "hash" THEN FALSE
         ELSE IF it.height.v \in {0 - 1, 0}
         THEN IF it.fee.t = "absent" THEN FALSE
              ELSE IF ~(it.fee.t = "int" /\ it.fee.v >= 0) THEN FALSE
              ELSE ItemsPass(items, i + 1, AfterMempool(prev))
         ELSE IF Below(it.height.v, prev) THEN FALSE
              ELSE ItemsPass(items, i + 1, Height(it.height.v))

\* Lines 1317-1318: len(hashes) != len(res)
NonUniqueTxids(items) ==
    Cardinality({items[i].tx_hash : i \in 1..Len(items)}) # Len(items)

\* Lines 1304-1323: what the checks of the response lead to.
HistoryOutcome(res) ==
    IF ~res.list THEN "RequestCorrupted"
    ELSE IF ~ItemsPass(res.items, 1, Height(1)) THEN "RequestCorrupted"
    ELSE IF NonUniqueTxids(res.items) THEN "RequestCorrupted"
    ELSE "returned"

\* Lines 1300-1303: the scripthash is checked and the request sent.
HistCall ==
    /\ hist.pc = "start"
    /\ hist' = [hist EXCEPT !.pc = IF hist.sh = "ok" THEN "waiting" ELSE "Exception"]
    /\ UNCHANGED nonHistVars

\* Lines 1303-1323: the response arrives and is checked.
HistResponse ==
    /\ hist.pc = "waiting"
    /\ hist' = [hist EXCEPT !.pc = HistoryOutcome(hist.res),
                            !.ret = IF HistoryOutcome(hist.res) = "returned"
                                    THEN hist.res.items ELSE <<>>]
    /\ UNCHANGED nonHistVars

\* Line 1303: send_request times out, or the caller is cancelled in it.
HistRequestFails(e) ==
    /\ hist.pc = "waiting"
    /\ hist' = [hist EXCEPT !.pc = e]
    /\ UNCHANGED nonHistVars

HistNext ==
    \/ HistCall
    \/ HistResponse
    \/ \E e \in {"RequestTimedOut", "CancelledError"} : HistRequestFails(e)

(***************************************************************************)
(* ServerAddr                                                              *)
(*                                                                         *)
(* A string is a sequence of characters. A port is a record of its Python  *)
(* type t, its number n (an int) and its string s (a str).                 *)
(*                                                                         *)
(*   sa   pc: position; host, port, protocol: the arguments of the         *)
(*        constructor; addr: the ServerAddr constructed; text: str(addr);  *)
(*        back: ServerAddr.from_str(text)                                  *)
(***************************************************************************)
Digits == <<"0", "1", "2", "3", "4", "5", "6", "7", "8", "9">>
IsDigit(c) == c \in Range(Digits)
DigitVal(c) == (CHOOSE i \in 1..10 : Digits[i] = c) - 1
\* int(s) of a string of digits
RECURSIVE ParseInt(_)
ParseInt(s) == IF Len(s) = 0 THEN 0 ELSE ParseInt(Front(s)) * 10 + DigitVal(Last(s))
\* str(n) of an int n >= 0
RECURSIVE FormatInt(_)
FormatInt(n) ==
    IF n < 10 THEN <<Digits[n + 1]>>
    ELSE FormatInt(n \div 10) \o <<Digits[(n % 10) + 1]>>

\* The positions of character c in s.
Positions(c, s) == {i \in 1..Len(s) : s[i] = c}
SetMax(S) == CHOOSE x \in S : \A y \in S : y <= x
SetMin(S) == CHOOSE x \in S : \A y \in S : x <= y
\* s.split(c)
RECURSIVE Split(_, _)
Split(c, s) ==
    IF Positions(c, s) = {} THEN <<s>>
    ELSE LET p == SetMax(Positions(c, s))
         IN Split(c, SubSeq(s, 1, p - 1)) \o <<SubSeq(s, p + 1, Len(s))>>

\* s.rsplit(':', 2)
RSplit2_FromLeft(s) ==
    LET ps == Positions(":", s) IN
    IF ps = {} THEN <<s>>
    ELSE LET p1 == SetMin(ps)
             qs == {i \in ps : i > p1}
         IN IF qs = {} THEN <<SubSeq(s, 1, p1 - 1), SubSeq(s, p1 + 1, Len(s))>>
            ELSE <<SubSeq(s, 1, p1 - 1), SubSeq(s, p1 + 1, SetMin(qs) - 1),
                   SubSeq(s, SetMin(qs) + 1, Len(s))>>
RSplit2(s) ==
    LET ps == Positions(":", s) IN
    IF ps = {} THEN <<s>>
    ELSE LET p2 == SetMax(ps)
             qs == {i \in ps : i < p2}
         IN IF qs = {} THEN <<SubSeq(s, 1, p2 - 1), SubSeq(s, p2 + 1, Len(s))>>
            ELSE <<SubSeq(s, 1, SetMax(qs) - 1), SubSeq(s, SetMax(qs) + 1, p2 - 1),
                   SubSeq(s, p2 + 1, Len(s))>>

\* The characters of a label of a hostname.
LabelChars == {"a", "b", "A", "-"} \cup Range(Digits)
\* aiorpcx is_valid_hostname: labels of letters, digits and inner hyphens,
\* a dot at the end allowed, the last label not a number.
IsValidHostname(h) ==
    LET h1 == IF Len(h) > 0 /\ Last(h) = "." THEN Front(h) ELSE h
        labels == Split(".", h1)
    IN /\ Len(h1) > 0
       /\ Len(h1) <= 253
       /\ \E i \in 1..Len(Last(labels)) : ~IsDigit(Last(labels)[i])
       /\ \A k \in 1..Len(labels) :
             /\ Len(labels[k]) > 0
             /\ Len(labels[k]) <= 63
             /\ \A i \in 1..Len(labels[k]) : labels[k][i] \in LabelChars
             /\ labels[k][1] # "-"
             /\ Last(labels[k]) # "-"

\* ipaddress.IPv4Address: four decimal octets without leading zeros.
IsIPv4(h) ==
    LET labels == Split(".", h) IN
    /\ Len(labels) = 4
    /\ \A k \in 1..4 :
          /\ Len(labels[k]) \in 1..3
          /\ \A i \in 1..Len(labels[k]) : IsDigit(labels[k][i])
          /\ Len(labels[k]) > 1 => labels[k][1] # "0"
          /\ ParseInt(labels[k]) <= 255

\* ipaddress.IPv6Address on the literals of the model: the literal and the
\* compressed lower-case form str() gives for it.
IPv6Forms ==
    {<< <<":", ":", "1">>, <<":", ":", "1">> >>,
     << <<"0", ":", "0", ":", "0", ":", "0", ":", "0", ":", "0", ":", "0", ":", "1">>,
        <<":", ":", "1">> >>,
     << <<":", ":", "A">>, <<":", ":", "a">> >>,
     << <<":", ":", "a">>, <<":", ":", "a">> >>,
     << <<"a", ":", ":", "0", "b">>, <<"a", ":", ":", "b">> >>,
     << <<"a", ":", ":", "b">>, <<"a", ":", ":", "b">> >>}
IsIPv6(h) == \E f \in IPv6Forms : f[1] = h
CanonIPv6(h) == (CHOOSE f \in IPv6Forms : f[1] = h)[2]

IntPort(n) == [s |-> <<>>, t |-> "int", n |-> n]
StrPort(s) == [s |-> s, t |-> "str", n |-> 0]
\* aiorpcx validate_port: a string of digits is converted, and the port is
\* accepted when it is an int with 0 < port <= 65535.
PortNumber(port) ==
    IF port.t = "str"
    THEN IF Len(port.s) > 0 /\ \A i \in 1..Len(port.s) : IsDigit(port.s[i])
         THEN ParseInt(port.s) ELSE 0
    ELSE port.n
ValidPort(port) == 0 < PortNumber(port) /\ PortNumber(port) <= 65535

NoAddr == [port |-> 0, host |-> <<>>, protocol |-> "", net_addr_str |-> <<>>]
ValueError == [NoAddr EXCEPT !.protocol = "ValueError"]

\* ServerAddr.__init__ (lines 395-414): the ServerAddr, or ValueError.
ServerAddr(host, port, protocol) ==
    LET p == IF protocol = "None" THEN "s" ELSE protocol
        h == IF Len(host) > 0 /\ host[1] = "[" /\ Last(host) = "]"
             THEN SubSeq(host, 2, Len(host) - 1) ELSE host
        known == IsValidHostname(h) \/ IsIPv4(h) \/ IsIPv6(h)
        canon == IF ~IsValidHostname(h) /\ ~IsIPv4(h) /\ IsIPv6(h)
                 THEN CanonIPv6(h) ELSE h
        v6 == ~IsValidHostname(h) /\ ~IsIPv4(h) /\ IsIPv6(h)
    IN IF Len(host) = 0 THEN ValueError
       ELSE IF ~known \/ ~ValidPort(port) THEN ValueError
       ELSE IF p \notin {"s", "t"} THEN ValueError
       ELSE [port |-> PortNumber(port), host |-> canon, protocol |-> p,
             net_addr_str |->
                 (IF v6 THEN <<"[">> \o canon \o <<"]">> ELSE canon)
                    \o <<":">> \o FormatInt(PortNumber(port))]

\* ServerAddr.__str__ (lines 450-451)
AddrStr(a) == a.net_addr_str \o <<":">> \o <<a.protocol>>

\* ServerAddr.from_str (lines 416-421): the ServerAddr, or ValueError, also
\* when rsplit gives fewer than three parts.
from_str(s) ==
    LET parts == RSplit2(s) IN
    IF Len(parts) # 3 THEN ValueError
    ELSE IF Len(parts[3]) # 1 THEN ValueError
    ELSE ServerAddr(parts[1], StrPort(parts[2]), parts[3][1])

\* ServerAddr.__eq__ (lines 458-463) and __hash__ (lines 468-469)
AddrEq(a, b) == a.host = b.host /\ a.port = b.port /\ a.protocol = b.protocol
AddrHash(a) == <<a.host, a.port, a.protocol>>

\* The arguments a ServerAddr is constructed with.
AddrHosts ==
    {<<"a", ".", "b">>, <<"A", ".", "b", ".">>, <<"a", "-", "1">>,
     <<"[", "a", ".", "b", "]">>,
     <<"1", ".", "2", ".", "3", ".", "4">>,
     <<"1", "0", ".", "0", ".", "0", ".", "2", "5", "5">>,
     <<":", ":", "1">>, <<"[", ":", ":", "1", "]">>,
     <<"0", ":", "0", ":", "0", ":", "0", ":", "0", ":", "0", ":", "0", ":", "1">>,
     <<":", ":", "A">>, <<"[", "a", ":", ":", "0", "b", "]">>,
     <<>>, <<"a", ":", "b">>, <<"-", "a">>, <<"1", ".", "2", ".", "3">>,
     <<"1", ".", "2", ".", "3", ".", "2", "5", "6">>}
AddrPorts ==
    {IntPort(1), IntPort(50002), IntPort(65535), IntPort(0), IntPort(65536),
     StrPort(<<"5", "0", "0", "0", "2">>), StrPort(<<"0", "5", "0">>),
     StrPort(<<"a">>), StrPort(<<>>)}
AddrProtocols == {"s", "t", "None", "x"}

AddrInit ==
    sa \in {[pc |-> "start", port |-> p, host |-> h, protocol |-> q,
             addr |-> NoAddr, text |-> <<>>, back |-> NoAddr] :
               h \in AddrHosts, p \in AddrPorts, q \in AddrProtocols}

AddrAtRest ==
    sa = [pc |-> "start", port |-> IntPort(1), host |-> <<"a", ".", "b">>,
          protocol |-> "s", addr |-> NoAddr, text |-> <<>>, back |-> NoAddr]

\* ServerAddr(host, port, protocol=protocol)
AddrConstruct ==
    /\ sa.pc = "start"
    /\ LET a == ServerAddr(sa.host, sa.port, sa.protocol) IN
       sa' = [sa EXCEPT !.pc = IF a = ValueError THEN "ValueError" ELSE "constructed",
                        !.addr = a]
    /\ UNCHANGED nonAddrVars

\* str(addr)
AddrToStr ==
    /\ sa.pc = "constructed"
    /\ sa' = [sa EXCEPT !.pc = "printed", !.text = AddrStr(sa.addr)]
    /\ UNCHANGED nonAddrVars

\* ServerAddr.from_str(str(addr))
AddrFromStr ==
    /\ sa.pc = "printed"
    /\ LET b == from_str(sa.text) IN
       sa' = [sa EXCEPT !.pc = IF b = ValueError THEN "from_str ValueError"
                                ELSE "parsed",
                        !.back = b]
    /\ UNCHANGED nonAddrVars

AddrNext == AddrConstruct \/ AddrToStr \/ AddrFromStr

NewInit == FeeInit /\ HistAtRest /\ AddrAtRest

RestInit == LockInit /\ ChunkInit /\ HeadersInit /\ CertAtRest /\ ExtInit /\ NewInit

Init == SessionInit /\ TransportInit /\ IfaceInit /\ FetchInit /\ RestInit

SpecSession == Init /\ [][SessionNext]_vars

SpecTransport == Init /\ [][TransportNext]_vars

(***************************************************************************)
(* Properties of the chain resolver and of the readiness signal.           *)
(***************************************************************************)

\* The resolver is inside sync_until or one of its callees.
InResolver == fpc \in {"sync", "ff", "step", "back", "bin"}

\* C11: whenever `ready` is resolved, self.blockchain is a chain, and it is
\* a chain wherever the resolver stands: in sync_until, in step, in the
\* backward search, in the binary search (which adopts its chain argument
\* before its loop) and after the fork resolution.
C11_ReadyHasBlockchain ==
    /\ ready = "resolved" => blockchain # NoChain
    /\ InResolver \/ fpc \in {"after", "returned"} => blockchain # NoChain

\* C11 witness: on a ready interface the binary search and the fork
\* resolution have run and step has returned a fork.
C11_Witness ==
    /\ ready = "resolved"
    /\ fpc = "sync"
    /\ ~frame.direct
    /\ frame.last = "FORK"
    /\ blockchain # NoChain

\* _mark_ready as the claim describes it, seen on one step of the interface.
ReadyStep ==
    /\ (ready' = "resolved" /\ ready # "resolved")
          => (ready = "pending" /\ nTips' = nTips + 1)
    /\ ready = "resolved" => ready' = "resolved"
    /\ ready = "cancelled" => ready' = "cancelled"
    /\ (ready = "cancelled" /\ nTips' = nTips + 1)
          => "run_fetch_blocks" \notin children'
    /\ (ready = "resolved" /\ nTips' = nTips + 1)
          => blockchain' = blockchain

\* C12: `ready` is resolved at most once, only by _mark_ready and only after
\* a tip notification was received; a `ready` found cancelled stays cancelled
\* and ends run_fetch_blocks; a `ready` found resolved is left alone together
\* with self.blockchain; and an interface that has ended before its first tip
\* has left `ready` cancelled.
C12_ReadySignal ==
    [][ReadyStep /\ (rootpc' = "done" /\ nTips' = 0 => ready' = "cancelled")]_vars

\* C13: at most one interface is inside the bhi_lock section; an interface
\* holds the lock exactly while it is inside sync_until, across its network
\* waits, and not after it has left the section by a return, an exception, a
\* request timeout or a cancellation; and when no interface is inside, an
\* interface that waits for the lock can take it.
C13_LockSection ==
    /\ \A i \in LockIfaces : lpc[i] = "syncing" <=> bhi_lock = i
    /\ \A i, j \in LockIfaces : lpc[i] = "syncing" /\ lpc[j] = "syncing" => i = j
    /\ \A j \in LockIfaces :
          (lpc[j] = "waiting" /\ \A i \in LockIfaces : lpc[i] # "syncing")
             => ENABLED LockAcquire(j)

\* C13 witness: one interface was cancelled inside sync_until after a network
\* wait, another timed out, and a third one is inside sync_until now, past a
\* network wait.
C13_Witness ==
    \E i, j, k \in LockIfaces :
       /\ lpc[i] = "cancelled"
       /\ lpc[j] = "timed_out"
       /\ lpc[k] = "syncing"
       /\ waits[k] > 0

\* C14: however calls of request_chunk_below_max_checkpoint interleave, at
\* most one of their get_block_headers requests per chunk index waits for
\* its response, and an index is in _requested_chunks exactly while that
\* request waits: it is removed when the request succeeds, raises
\* RequestCorrupted, times out or is cancelled.
C14_OneFetchPerChunk ==
    /\ \A i \in ChunkIndexes : fetching[i] <= 1
    /\ \A i \in ChunkIndexes : i \in requested_chunks <=> fetching[i] = 1
    /\ requested_chunks \subseteq ChunkIndexes
    /\ \A i \in ChunkIndexes :
          fetching[i] = Cardinality({c \in ChunkCallers :
                                      ccall[c].pc = "fetching" /\ ccall[c].index = i})

\* C14 witness: a call was skipped because its chunk was being fetched, the
\* fetch of another caller for that chunk was cancelled since, and a third
\* caller fetches the same chunk now.
C14_Witness ==
    \E a, b, c \in ChunkCallers :
       /\ ccall[a].pc = "skipped"
       /\ ccall[b].pc = "cancelled"
       /\ ccall[c].pc = "fetching"
       /\ ccall[a].index = ccall[b].index
       /\ ccall[b].index = ccall[c].index
       /\ ccall[c].index \in requested_chunks

ChunkSpecInit ==
    /\ SessionInit /\ TransportInit /\ ReadyIfaceInit /\ RestInit
    /\ tip = ChunkHeights_Tip
    /\ max_checkpoint = ChunkCheckpoint

SpecChunk == ChunkSpecInit /\ [][ChunkNext]_vars

\* C15: get_block_headers(start_height, count) returns n headers only if
\* 0 < count <= 2016, the response's hex string holds exactly 80 bytes for
\* each counted header, its max field is at least 2016, n <= count, and
\* n < count only when start_height + n - 1 >= tip; and a response that
\* violates one of these conditions raises RequestCorrupted.
C15_HeadersResponseChecked ==
    LET good == /\ gbh.res.hexlen = 2 * 80 * gbh.res.count
                /\ gbh.res.max >= 2016
                /\ gbh.res.count <= gbh.count
                /\ gbh.res.count < gbh.count
                      => gbh.start_height + gbh.res.count - 1 >= tip
    IN
    /\ gbh.pc = "returned" =>
          /\ 0 < gbh.count /\ gbh.count <= 2016
          /\ gbh.n = gbh.res.count
          /\ good
    /\ gbh.res # NoResponse /\ ~good => gbh.pc = "RequestCorrupted"

\* C15 witness: fewer headers than asked for were returned because the
\* response reached the tip.
C15_Witness ==
    /\ gbh.pc = "returned"
    /\ gbh.n > 0
    /\ gbh.n < gbh.count
    /\ gbh.start_height + gbh.n - 1 = tip

C17_FirstContactWithFingerprint ==
    (expected_fingerprint # "" /\ probe # "none") =>
       /\ cert_writes > 0 =>
             /\ probe = "self_signed"
             /\ cert_file = Pem(fetched)
             /\ fetched \in {"ab12", "cd34"}
             /\ expected_fingerprint \in
                   (IF fetched = "ab12" THEN {"ab12", "AB12", "Ab12"} ELSE {"cd34"})
       /\ probe = "ca_signed" =>
             cpc = "InvalidOptionCombination" /\ cert_file = Absent
       /\ (/\ fetched # ""
           /\ expected_fingerprint \notin
                 (IF fetched = "ab12" THEN {"ab12", "AB12", "Ab12"} ELSE {"cd34"}))
             => /\ cpc = "ErrorSSLCertFingerprintMismatch"
                /\ nMismatch > 0
                /\ cert_file = Absent

\* C17 witness: the certificate was saved although the expected fingerprint
\* was typed in capitals.
C17_Witness ==
    /\ expected_fingerprint = "AB12"
    /\ probe = "self_signed"
    /\ cert_writes = 1
    /\ cert_file = Pem("ab12")
    /\ cpc = "done"

\* C18: the certificate file only changes from absent to empty, from absent
\* to a PEM certificate, and from a PEM certificate to absent when that
\* certificate has expired; a certificate that has not expired and the empty
\* marker are never overwritten or deleted; the file is written at most once
\* per start-up; and the context returned trusts the CA bundle exactly when
\* the file is empty.
C18_CertFileTransitions ==
    [][/\ cert_file' # cert_file =>
            \/ cert_file.kind = "absent" /\ cert_file'.kind \in {"empty", "pem"}
            \/ cert_file.kind = "pem" /\ cert_expired /\ cert_file'.kind = "absent"
       /\ cert_writes' <= 1
       /\ cpc' = "done" => (sslc' = "ca" <=> cert_file'.kind = "empty")]_vars

\* C18 witness: an expired certificate was deleted and the certificate
\* fetched again was saved in the same start-up.
C18_Witness ==
    /\ unlinked
    /\ cert_writes = 1
    /\ cert_file.kind = "pem"
    /\ cpc = "done"
    /\ sslc = "pinned"

\* C19: once a typed request has raised RequestCorrupted to the coroutine
\* that issued it, be it a task of the interface or a caller outside, the
\* session serves no further request.
C19_CorruptedEndsSession ==
    [][ext_corrupted => ext_served' = ext_served]_vars

\* C20: ping, request_fee_estimates, run_fetch_blocks and monitor_connection
\* are spawned, and `ready` can be resolved, only after server.version has
\* returned a result whose second element is the requested protocol version
\* and the spread check has passed; an RPCError, another version or a failed
\* check end the interface by a GracefulDisconnect with none of the four
\* spawned.
C20_TasksOnlyAfterVersion ==
    /\ (children \cap GroupTasks # {} \/ ready = "resolved") => ver = "ok"
    /\ ver \in {"rpc_error", "wrong_version", "spread_failed"} =>
          /\ children \cap GroupTasks = {}
          /\ rootpc \in {"fin_cancel", "fin_down", "done"}
          /\ outcome \in {"graceful", "cancelled"}
          /\ ready # "resolved"

\* C20 witness: the server answered with another protocol version and the
\* interface has ended by a graceful disconnect.
C20_Witness ==
    /\ ver = "wrong_version"
    /\ rootpc = "done"
    /\ outcome = "graceful"
    /\ got_disconnected

ExtSpecInit ==
    /\ SessionInit /\ TransportInit /\ ReadyIfaceInit /\ RestInit
    /\ tip = 8
    /\ max_checkpoint = 0

SpecExt == ExtSpecInit /\ [][ExtNext]_vars

CertSpecInit ==
    /\ SessionInit /\ TransportInit /\ IfaceInit /\ FetchInit
    /\ LockInit /\ ChunkInit /\ HeadersInit /\ ExtInit
    /\ CertInit
    /\ NewInit

SpecCert == CertSpecInit /\ [][CertNext]_vars

HeadersSpecInit ==
    /\ SessionInit /\ TransportInit /\ ReadyIfaceInit /\ RestInit
    /\ tip \in HeaderTips
    /\ max_checkpoint = 0

SpecHeaders == HeadersSpecInit /\ [][HeadersNext]_vars

ResolverSpecInit ==
    SessionInit /\ TransportInit /\ ResolverInit /\ RestInit

SpecResolver == ResolverSpecInit /\ [][ResolverNext]_vars

SpecLock == Init /\ [][LockNext]_vars

IfaceSpecInit ==
    /\ SessionInit /\ TransportInit /\ IfaceInit /\ RestInit
    /\ \E cp \in Checkpoints : FetchStart(cp)

SpecIface == IfaceSpecInit /\ [][IfaceNext]_vars

\* The interface on an event loop that runs every task that can run:
\* monitor_connection wakes from its sleep of one second (line 957) and looks
\* at the session, a task whose cancellation was requested ends, the
\* taskgroup is left when its tasks have ended, and cancel_remaining and
\* connection_down return.
IfaceFairness ==
    /\ WF_vars(ChildFails("monitor_connection", "graceful"))
    /\ \A c \in ChildNames : WF_vars(ChildEnds(c))
    /\ WF_vars(JoinDone)
    /\ WF_vars(FinCancelDone)
    /\ WF_vars(FinDownDone)

SpecIfaceFair == IfaceSpecInit /\ [][IfaceNext]_vars /\ IfaceFairness

(***************************************************************************)
(* Properties of the headers cache.                                        *)
(***************************************************************************)

\* The run_fetch_blocks task is inside _process_header_at_tip.
ProcessingTip ==
    /\ "run_fetch_blocks" \in children
    /\ fpc \in {"lock", "sync", "ff", "step", "back", "bin"}

\* C25: on an interface whose tips are processed by run_fetch_blocks, the
\* cache is empty whenever no tip is being processed: before the first tip
\* and after _process_header_at_tip has returned, raised or been cancelled;
\* and the processing of a tip starts with a cache that holds the header of
\* that tip and nothing else.
C25_CacheEmptyOutsideProcessing ==
    ~frame.direct =>
       /\ ~ProcessingTip => headers_cache = {}
       /\ (ProcessingTip /\ fpc = "lock") => headers_cache = {tip}

\* C25 witness: the task was cancelled inside the binary search of its
\* second tip and has ended, and the cache is empty.
C25_Witness ==
    /\ ~frame.direct
    /\ nTips = 2
    /\ fpc = "bin"
    /\ "run_fetch_blocks" \notin children
    /\ headers_cache = {}

\* C26: every header that is put into the cache has a height that is at
\* most self.tip: the tip header, and the headers of the cache warming of
\* step, of the backward search and of the binary search.
C26_CachedHeightsBelowTip ==
    [][\A h \in headers_cache' \ headers_cache : h <= tip']_vars

\* C26 witness: the cache holds headers that the warming of a step and of a
\* backward search have put there, the tip header among them.
C26_Witness ==
    /\ fpc = "bin"
    /\ ResolverRuns
    /\ tip \in headers_cache
    /\ 0 \in headers_cache
    /\ Cardinality(headers_cache) > 3

\* The resolver, the cancellation of the interface by the supervisor and
\* the end of the cancelled run_fetch_blocks task.
CacheNext ==
    \/ ResolverNext
    \/ CancelRoot
    \/ ChildEnds("run_fetch_blocks")

SpecCache == ResolverSpecInit /\ [][CacheNext]_vars

(***************************************************************************)
(* Properties of the fee estimates.                                        *)
(***************************************************************************)

\* C21: fee_estimates_eta only ever holds non-negative integers, under
\* keys that are fee-ETA targets other than the last one of the list; and
\* when get_estimatefee yields -1 for a target, the entry of that target is
\* left as it was.
C21_FeeEstimatesStored ==
    [][/\ DOMAIN fee_estimates_eta' \subseteq
             {FEE_ETA_TARGETS[i] : i \in 1..(Len(FEE_ETA_TARGETS) - 1)}
       /\ FEE_ETA_TARGETS[Len(FEE_ETA_TARGETS)] \notin DOMAIN fee_estimates_eta'
       /\ \A k \in DOMAIN fee_estimates_eta' :
             /\ fee_estimates_eta'[k].t = "int"
             /\ fee_estimates_eta'[k].v >= 0
       /\ \A k \in FeeTargets :
             (fee_pc = "join" /\ fee_tasks[k].kind = "fee" /\ fee_tasks[k].v = 0 - 1)
                => /\ k \in DOMAIN fee_estimates_eta' <=> k \in DOMAIN fee_estimates_eta
                   /\ k \in DOMAIN fee_estimates_eta
                         => fee_estimates_eta'[k] = fee_estimates_eta[k]]_vars

\* C21 witness: the second round has stored a fee for one target and has
\* left the fee of the first round in place for a target that the server
\* could not estimate this time.
C21_Witness ==
    /\ nFeeRounds = 2
    /\ fee_pc = "sleep"
    /\ \E k, j \in FeeTargets :
          /\ fee_tasks[k] = MinusOne
          /\ k \in DOMAIN fee_estimates_eta
          /\ fee_estimates_eta[k] = Fee("int", 1)
          /\ fee_tasks[j] = Fee("int", 0)
          /\ fee_estimates_eta[j] = Fee("int", 0)

SpecFee == Init /\ [][FeeNext]_vars

(***************************************************************************)
(* Properties of get_history_for_scripthash.                               *)
(***************************************************************************)

\* An item of the mempool: its height is 0 or -1.
Unconfirmed(it) == it.height.v \in {0, 0 - 1}

\* C22: get_history_for_scripthash returns the list of the server only if
\* every item has an integer height and a hash256 tx_hash, the confirmed
\* heights do not decrease along the list, every unconfirmed item carries a
\* non-negative integer fee, no confirmed item follows an unconfirmed one
\* and the tx_hash values are distinct; a response that fails one of these
\* conditions raises RequestCorrupted.
C22_HistoryChecked ==
    LET l == hist.res.items
        n == Len(l)
        good ==
            /\ hist.res.list
            /\ \A i \in 1..n :
                  /\ l[i].dict
                  /\ l[i].height.t = "int"
                  /\ l[i].tx_hash.t = "hash"
                  /\ Unconfirmed(l[i]) => l[i].fee.t = "int" /\ l[i].fee.v >= 0
            /\ \A i, j \in 1..n :
                  (i < j /\ ~Unconfirmed(l[i]) /\ ~Unconfirmed(l[j]))
                     => l[i].height.v <= l[j].height.v
            /\ \A i, j \in 1..n : (i < j /\ Unconfirmed(l[i])) => Unconfirmed(l[j])
            /\ \A i, j \in 1..n : i # j => l[i].tx_hash # l[j].tx_hash
    IN
    /\ hist.pc = "returned" => good /\ hist.ret = l
    /\ (hist.pc \notin {"start", "waiting", "Exception", "RequestTimedOut",
                        "CancelledError"} /\ ~good)
          => hist.pc = "RequestCorrupted"

\* C22 witness: a list of two confirmed items of rising height and an item
\* of the mempool was returned.
C22_Witness ==
    /\ hist.pc = "returned"
    /\ Len(hist.ret) = 3
    /\ hist.ret[1].height.v = 1
    /\ hist.ret[2].height.v = 2
    /\ hist.ret[3].height.v = 0 - 1

HistSpecInit ==
    /\ SessionInit /\ TransportInit /\ IfaceInit /\ FetchInit
    /\ LockInit /\ ChunkInit /\ HeadersInit /\ CertAtRest /\ ExtInit
    /\ FeeInit /\ AddrAtRest
    /\ HistInit

SpecHist == HistSpecInit /\ [][HistNext]_vars

(***************************************************************************)
(* Properties of ServerAddr.                                               *)
(***************************************************************************)

\* C23: for every ServerAddr that was constructed, of a hostname, an IPv4
\* or an IPv6 host, a valid port and the protocol 't' or 's',
\* ServerAddr.from_str(str(addr)) does not raise, equals addr and has the
\* hash of addr.
C23_FromStrOfStr ==
    /\ sa.pc \in {"parsed", "from_str ValueError"} => sa.pc = "parsed"
    /\ sa.pc = "parsed" =>
          /\ AddrEq(sa.back, sa.addr)
          /\ AddrHash(sa.back) = AddrHash(sa.addr)
          /\ sa.back.protocol \in {"s", "t"}

\* C23 witness: an IPv6 address given in its long form, with the port as a
\* string and the protocol 't', was printed in brackets and parsed back.
C23_Witness ==
    /\ sa.pc = "parsed"
    /\ Len(sa.host) = 15
    /\ sa.port.t = "str"
    /\ sa.addr.host = <<":", ":", "1">>
    /\ sa.text[1] = "["
    /\ sa.back.protocol = "t"
    /\ sa.back.port = 50002

AddrSpecInit ==
    /\ SessionInit /\ TransportInit /\ IfaceInit /\ FetchInit
    /\ LockInit /\ ChunkInit /\ HeadersInit /\ CertAtRest /\ ExtInit
    /\ FeeInit /\ HistAtRest
    /\ AddrInit

SpecAddr == AddrSpecInit /\ [][AddrNext]_vars

\* Properties of sync_until.

\* C27: whatever the server answers and whatever the blockchain store holds,
\* the pair (mode, height) at the progress check of sync_until (line 1081)
\* differs from the pair before the iteration: the assertion never fails.
C27_ProgressAssertionHolds ==
    ~frame.no_progress

\* C29: when the fast-forward of an iteration far from next_height (more
\* than 144 headers behind) has connected no header, sync_until raises
\* GracefulDisconnect if `height` is at or below the last checkpoint, and in
\* every other case goes on with step(height), at the same height.
C29_ZeroProgress ==
    [][(fpc = "ff" /\ frame'.num_headers = 0) =>
          /\ frame.next_height > frame.height + FarFromTip
          /\ IF frame.height <= max_checkpoint
             THEN /\ frame'.exc = "graceful"
                  /\ fpc' = IF frame.direct THEN "raised" ELSE "dead"
                  /\ ~frame.direct => outcome' = "graceful"
             ELSE /\ fpc' = "step"
                  /\ frame'.height = frame.height
                  /\ frame'.exc = "None"]_vars

\* C29 witness: a fast-forward from a height at or below the last checkpoint
\* has connected nothing and the call has ended by GracefulDisconnect.
C29_Witness ==
    /\ frame.num_headers = 0
    /\ frame.height <= max_checkpoint
    /\ frame.exc = "graceful"
    /\ fpc = "raised"

\* The other zero-progress case: step is called at the same height and the
\* loop will continue without the progress check.
C29_StepWitness ==
    /\ frame.num_headers = 0
    /\ frame.height > max_checkpoint
    /\ fpc = "step"
    /\ frame.cont

\* C30: trivial reorg, as stated: with the local chain at height 200, the
\* server's header at 200 not checking against any known chain and its
\* header at 199 checking, step(200) returns (CATCHUP, 201) and has connected
\* (saved) the header at 200.
C30_TrivialReorgCatchesUp ==
    (frame.only_step /\ tip = ReorgTip /\ fpc = "stepped") =>
       /\ frame.last = "CATCHUP"
       /\ frame.height = ReorgTip + 1
       /\ frame.saved = ReorgTip

\* C30, amended: in that situation step(200) returns (CATCHUP, 201) exactly
\* when can_connect accepts the header at 200, which is then saved; when the
\* header at 199 connects instead it returns (CATCHUP, 200); and when
\* neither connects, the binary search ends at good = 199, bad = 200 and,
\* the local chain being higher than 199, a fork is made at 200 and step
\* returns (FORK, 201).
C30_TrivialReorgForks ==
    (frame.only_step /\ tip = ReorgTip /\ fpc = "stepped") =>
       /\ frame.saved \in {-1, ReorgTip - 1, ReorgTip}
       /\ frame.saved = ReorgTip =>
             frame.last = "CATCHUP" /\ frame.height = ReorgTip + 1
       /\ frame.saved = ReorgTip - 1 =>
             frame.last = "CATCHUP" /\ frame.height = ReorgTip
       /\ frame.saved = -1 =>
             frame.last = "FORK" /\ frame.height = ReorgTip + 1

\* C30 witness: step(200) has returned (FORK, 201) without saving a header.
C30_Witness ==
    /\ frame.only_step
    /\ tip = ReorgTip
    /\ fpc = "stepped"
    /\ frame.last = "FORK"
    /\ frame.height = ReorgTip + 1
    /\ frame.saved = -1

\* Properties of the backward search, the binary search and the fork
\* resolution.

\* step has been called alone on the store of the deep fork.
DeepFork == frame.only_step /\ tip = ForkTip

\* The backward search entered at height h probes min(local_max + 1, h - 1)
\* first (at the checkpoint if that is not above it) with delta 2, a probe
\* that neither checks nor connects is followed by one delta lower (at the
\* checkpoint at the lowest) with delta doubled, and no probe follows one
\* whose header checks; in the deep fork the probes are 999, 997, 993, ...
\* (ForkTip + 1 - delta), and with the chains agreeing up to 500 the first
\* header that checks is the one at first_good.
BackwardProbes(first_good) ==
    /\ (fpc = "step" /\ fpc' = "back") =>
          /\ frame'.delta = 2
          /\ \E lm \in LocalMaxes(frame) :
                frame'.probe = Max(max_checkpoint, Min(lm + 1, frame.height - 1))
    /\ (fpc = "back" /\ fpc' = "back") =>
          /\ frame'.delta = 2 * frame.delta
          /\ frame'.probe = Max(max_checkpoint, frame.probe - frame.delta)
          /\ frame'.bad = frame.probe
          /\ frame.checks_upto # -1 => frame.probe > frame.checks_upto
    /\ (DeepFork /\ fpc' = "back") => frame'.probe = ForkTip + 1 - frame'.delta
    /\ (DeepFork /\ frame.checks_upto = 500 /\ fpc = "back" /\ fpc' = "bin") =>
          frame'.good = first_good

\* C31, as stated: the probes of the backward search are as described and
\* in the deep fork (server tip 1000, chains agreeing up to 500) the first
\* header that checks is the one at height 480.
C31_BackwardFirstGood480 ==
    [][BackwardProbes(480)]_vars

\* C31, amended: the same, but the probes 999, 997, 993, 985, 969, 937, 873,
\* 745, 489 end at 489, the first probed height at or below 500.
C31_BackwardFirstGood489 ==
    [][BackwardProbes(489)]_vars

\* C31 witness: in the deep fork with the chains agreeing up to 500 the
\* header at 489 has checked and the binary search has started from it.
C31_Witness ==
    /\ DeepFork
    /\ frame.checks_upto = 500
    /\ fpc = "bin"
    /\ frame.good = 489
    /\ frame.bad = 745

\* The store is a known one: the server's headers check against a known
\* chain at every height up to checks_upto and at no height above it.
KnownStore == frame.checks_upto # -1

\* On a known store with the headers checking up to F, the binary search
\* keeps good <= F < bad, and it ends with good = F and bad = F + 1: the
\* fork point resolved is F + 1 and step returns (FORK, F + 2), or
\* (NO_FORK, F + 1) when the chain ends at F. Its interval is always a
\* proper one and its bad header never checks; unexpected tells whether the
\* bad header may fail to connect to the adopted chain. In the deep fork
\* with F = 500 the result is (FORK, 502) with a fork point of 501.
BinaryBrackets(unexpected) ==
    (KnownStore /\ fpc = "bin") =>
        /\ frame.good <= frame.checks_upto
        /\ frame.checks_upto < frame.bad
        /\ fpc' = "stepped" =>
              /\ frame'.last \in {"FORK", "NO_FORK"}
              /\ frame'.good = frame.checks_upto
              /\ frame'.bad = frame.checks_upto + 1
              /\ frame'.last = "FORK" =>
                    /\ frame'.forkpoint = frame.checks_upto + 1
                    /\ frame'.height = frame.checks_upto + 2
              /\ frame'.last = "NO_FORK" =>
                    /\ frame'.bh = frame.checks_upto
                    /\ frame'.height = frame.checks_upto + 1
              /\ (DeepFork /\ frame.checks_upto = 500) =>
                    /\ frame'.last = "FORK"
                    /\ frame'.height = 502
                    /\ frame'.forkpoint = 501
        /\ frame'.raise_at \notin {"interval", "bad_header must not check"}
        /\ ~unexpected => frame'.raise_at # "unexpected bad header"

\* C32, as stated: if the server's headers check against a known chain at
\* every height <= F and at no height > F, the binary search returns
\* (F, F + 1) with a bad header that checks against no chain and connects to
\* the adopted chain, and it never raises 'unexpected bad header'; in the
\* deep fork the resolution returns (FORK, 502) with a fork point of 501.
C32_BinaryNeverUnexpected ==
    [][BinaryBrackets(FALSE)]_vars

\* C32, amended: the same, except that the binary search raises 'unexpected
\* bad header' when can_connect, asked without the height, does not accept
\* the header at F + 1 for the adopted chain.
C32_BinaryBrackets ==
    [][BinaryBrackets(TRUE)]_vars

\* C32 witness: in the deep fork with the chains agreeing up to 500 the step
\* has returned (FORK, 502) with a new chain of fork point 501.
C32_Witness ==
    /\ DeepFork
    /\ frame.checks_upto = 500
    /\ fpc = "stepped"
    /\ frame.last = "FORK"
    /\ frame.height = 502
    /\ frame.forkpoint = 501

\* C33: whenever the binary search is entered from step, 0 <= good < bad
\* holds at the start of every turn of its loop and the assertion of it never
\* fails, bad - good decreases in every turn that does not end the loop, and
\* the loop is left with good + 1 = bad.
C33_BinaryInterval ==
    [][/\ fpc' = "bin" => 0 <= frame'.good /\ frame'.good < frame'.bad
       /\ (fpc = "bin" /\ fpc' = "bin") =>
             /\ frame'.bad - frame'.good < frame.bad - frame.good
             /\ frame.good <= frame'.good
             /\ frame'.bad <= frame.bad
       /\ (fpc = "bin" /\ fpc' \in {"stepped", "sync"}) =>
             frame'.good + 1 = frame'.bad
       /\ frame'.raise_at # "interval"]_vars

\* The binary search has ended and the resolution of the fork point returns.
ForkResolved == fpc = "bin" /\ fpc' \in {"stepped", "sync"}

C35_BackwardAboveCheckpoint ==
    [][/\ fpc' = "back" =>
             /\ frame'.probe >= 0
             /\ frame'.probe >= max_checkpoint
             /\ frame'.checkp <=> frame'.probe = max_checkpoint
             /\ frame'.probe < frame'.bad \/ frame'.probe = frame'.height
       /\ (fpc = "back" /\ fpc' = "back") =>
             /\ ~frame.checkp
             /\ frame'.probe < frame.probe
       /\ frame'.raise_at = "conflicts with checkpoints" =>
             /\ fpc = "back"
             /\ frame.checkp
             /\ frame'.exc = "graceful"
       /\ fpc = "back" =>
             /\ frame'.raise_at # "interval"
             /\ fpc' = "bin" =>
                   /\ frame'.good = frame.probe
                   /\ frame'.good < frame'.bad
             /\ (fpc' \in {"stepped", "sync"}) =>
                   /\ frame'.saved = frame.probe
                   /\ frame.probe < frame'.bad]_vars

\* The probe of a first contact has failed, and not because the certificate
\* is self-signed; wrapped tells the kinds of failure that _get_ssl_context
\* turns into ErrorGettingSSLCertFromServer, the others leave it as they
\* are. Either way no file is written, no context is made and the main
\* session is not opened, and this stays so until the next start-up.
ProbeFailureEnds(wrapped) ==
    /\ (cpc = "probing" /\ probe' \in ProbeFailures) =>
          /\ cpc' = IF probe' \in wrapped THEN "ErrorGettingSSLCertFromServer"
                                          ELSE probe'
          /\ cert_file' = Absent
          /\ cert_writes' = 0
          /\ sslc' = "none"
    /\ (probe \in ProbeFailures /\ probe' = probe) =>
          /\ cpc' = cpc
          /\ cert_file' = Absent
          /\ sslc' = "none"

\* C36, as stated: on a first contact every failure of the probe other than
\* the one of a self-signed certificate, whatever its kind, ends
\* _get_ssl_context with ErrorGettingSSLCertFromServer; the file stays absent
\* and the main session is not opened.
C36_ProbeFailureAlwaysWrapped ==
    [][ProbeFailureEnds(ProbeFailures)]_vars

\* C36, amended: an OSError, a ConnectError of another cause or a SOCKSError
\* ends _get_ssl_context with ErrorGettingSSLCertFromServer; a
\* GracefulDisconnect (an RPCError or a timeout of server.version) passes
\* through it as it is; in both cases the file stays absent and the main
\* session is not opened.
C36_ProbeFailureEnds ==
    [][ProbeFailureEnds({"OSError", "ConnectError", "SOCKSError"})]_vars

\* C36 witness: the probe has failed with a ConnectError that is not the one
\* of a self-signed certificate, and the certificate setup has ended with
\* ErrorGettingSSLCertFromServer and no file.
C36_Witness ==
    /\ probe = "ConnectError"
    /\ cpc = "ErrorGettingSSLCertFromServer"
    /\ cert_file = Absent
    /\ sslc = "none"

\* The tasks of the interface run on a session that is closing or closed.
OnClosedSession == rootpc = "children" /\ session \in {"closing", "closed"}

\* The interface is disconnected: got_disconnected is set, no task of the
\* taskgroup is left and the supervisor was told by connection_down.
Disconnected == got_disconnected /\ children = {} /\ nDown > 0

\* C37: if the session becomes closing or absent while the tasks of the
\* interface run, then monitor_connection raises a GracefulDisconnect at its
\* next look at the session (unless the taskgroup is ending already), and
\* eventually got_disconnected is set, every task is gone and the supervisor
\* is notified: the interface does not stay connected on a closed session.
C37_ClosedSessionDisconnects ==
    OnClosedSession ~> Disconnected

\* Every message received so far has been handled: nothing waits in the
\* inbox, handle_request is not running and no subscribe call has a result
\* that it has not yet stored.
AllHandled ==
    /\ inbox = <<>>
    /\ hr.pc = "idle"
    /\ \A c \in Callers : sub[c].pc # "ready"

\* C38: for every subscribed key, once all messages received so far have been handled,
\* the cache holds the value the server has sent last for the key (the
\* server's values only grow, so this is its current one), and on no queue
\* does the result of a subscribe call follow a notification of the same key
\* with a newer value.
C38_CacheHoldsLastSent ==
    /\ AllHandled =>
          \A k \in DOMAIN subscriptions \cap DOMAIN cache :
              cache[k] = srvVal[k]
    /\ \A q \in Queues : \A i, j \in 1..Len(queue[q]) :
          (/\ i < j
           /\ queue[q][i].key = queue[q][j].key
           /\ queue[q][i].src = "notification"
           /\ queue[q][j].src = "subscribe")
             => Last(queue[q][j].args) >= Last(queue[q][i].args)

\* is_connected_and_ready (lines 705-706): Future.done() is true of a future
\* that holds a result and of one that was cancelled.
is_connected_and_ready == ready # "pending" /\ ~got_disconnected

\* C39: whenever is_connected_and_ready() returns true, `ready` was resolved
\* by _mark_ready and not cancelled, a tip header has been received and
\* self.blockchain is a chain.
C39_ReadyMeansResolved ==
    is_connected_and_ready =>
        /\ ready = "resolved"
        /\ nTips > 0
        /\ blockchain # NoChain

\* request_chunk_below_max_checkpoint reaches line 852: the chunk has arrived
\* and blockchain.connect_chunk is called on it (it connects or it does not).
ChunkConnects ==
    \E c \in ChunkCallers :
        /\ ccall[c].pc = "fetching"
        /\ ccall'[c].pc \in {"connected", "corrupted"}

\* C40: every call of the interface that mutates the blockchain store is made
\* while the interface holds network.bhi_lock; here the connect_chunk call of
\* request_chunk_below_max_checkpoint: it is made only when the lock is held.
C40_StoreMutatedUnderLock ==
    [][ChunkConnects => ~LockFree]_vars

Spec == SpecSession
====
